---- MODULE Spec2Model ----
(***************************************************************************)
(* A model of the dependency solver of verpy (verpy/solver5.py) together   *)
(* with the part of the version algebra (verpy/version/versioning.py) the  *)
(* solver evaluates.  The solver is sequential and deterministic: the only *)
(* nondeterminism is the choice of the repository and of the root          *)
(* requirements in Init.  VersionSpec models the Version and VersionSet    *)
(* objects of verpy/version/types.py on their own: comparisons, hashes and *)
(* membership tests applied to parsed versions, with the component lists   *)
(* the objects hold as state.  Solver2Spec models the frontier-based       *)
(* solver of verpy/solver2.py, Solver4Spec the transactional solver of     *)
(* verpy/solver4.py, and TransactionSpec the Book of solver4 used on its   *)
(* own.                                                                    *)
(***************************************************************************)
EXTENDS Integers, Sequences, FiniteSets, TLC

(***************************************************************************)
(* Bounds of the explored inputs.                                          *)
(***************************************************************************)
\* number of package names of the repository
NumPackages == 2
\* every package offers the versions "1.0" .. "k.0" for some k <= NumVersions
NumVersions == 1
\* total number of requirements carried by the versions of the repository
MaxRequirements == 1
\* the solve loop is followed while state.clauses is shorter than this
MaxClauses == 24

PackageNames == <<"a", "b", "c", "d", "e">>
Packages == {PackageNames[i] : i \in 1..NumPackages}

VersionString(n) == ToString(n) \o ".0"
RepoVersions == {VersionString(n) : n \in 1..NumVersions}

(***************************************************************************)
(* Three-valued truth (Python True / False / None).                        *)
(***************************************************************************)
True == "True"
False == "False"
None == "None"

(***************************************************************************)
(* Versions: components and comparison.                                    *)
(***************************************************************************)
string_version_orderings ==
    [s \in {"alpha", "a", "beta", "b", "milestone", "m", "rc", "cr", "c", "",
            "snapshot", "dev", "final", "ga", "post", "sp"} |->
        CASE s \in {"alpha", "a"} -> 0
          [] s \in {"beta", "b"} -> 1
          [] s \in {"milestone", "m"} -> 2
          [] s \in {"rc", "cr", "c"} -> 3
          [] s = "" -> 4
          [] s \in {"snapshot", "dev"} -> 5
          [] s \in {"final", "ga"} -> 6
          [] s \in {"post", "sp"} -> 7]

NumericComponent(items) == [type |-> "numeric", items |-> items, item |-> ""]
StringComponent(item) == [type |-> "string", items |-> <<>>, item |-> item]
NullComponent == [type |-> "null", items |-> <<>>, item |-> ""]

GREATER == 1
LESSER == -1
EQUAL == 0

\* str.lower on the tokens the model uses: "SNAPSHOT" is the one token with
\* upper-case letters
lower(s) == IF s = "SNAPSHOT" THEN "snapshot" ELSE s

\* Python's order of the lower-cased tokens the model uses (str.__lt__)
TokenOrder == <<"", "a", "alpha", "b", "beta", "none", "snapshot", "x", "y">>
TokenIndex(s) == CHOOSE i \in 1..Len(TokenOrder) : TokenOrder[i] = s

\* the version strings the solver meets, as VERSION_PATTERN splits them:
\* "none" is one alphabetic component, "n.0" one numeric component [n, 0],
\* "n" one numeric component [n] and "0.n" one numeric component [0, n]
VERSION_PATTERN(s) ==
    IF s = "none"
    THEN <<StringComponent("none")>>
    ELSE IF \E k \in 0..9 : ToString(k) = s
    THEN <<NumericComponent(<<CHOOSE k \in 0..9 : ToString(k) = s>>)>>
    ELSE IF \E k \in 1..9 : "0." \o ToString(k) = s
    THEN <<NumericComponent(<<0, CHOOSE k \in 1..9 : "0." \o ToString(k) = s>>)>>
    ELSE LET n == CHOOSE k \in 0..9 : VersionString(k) = s
         IN  <<NumericComponent(<<n, 0>>)>>

\* Version._parsed_repr: the components of a version string, parsed once and
\* kept (_parsed_representation)
parsed_representation ==
    [s \in {"none"} \cup {ToString(k) : k \in 0..9}
                    \cup {VersionString(k) : k \in 0..9}
                    \cup {"0." \o ToString(k) : k \in 1..9} |-> VERSION_PATTERN(s)]

Version_parsed_repr(s) == parsed_representation[s]

\* what a comparison gives when `raise Exception("Internal Error.")` ends
\* it: no comparison result
InternalError == 2

compare_component_with_null(a) ==
    IF a.type = "numeric" THEN GREATER
    ELSE IF a.type = "string"
    THEN LET a_item == lower(a.item)
         IN  IF a_item \in DOMAIN string_version_orderings
             THEN IF string_version_orderings[a_item] > string_version_orderings[""]
                  THEN GREATER
                  ELSE IF string_version_orderings[a_item] < string_version_orderings[""]
                       THEN LESSER
                       ELSE EQUAL
             ELSE LESSER
    ELSE InternalError

ItemAt(items, i) == IF i <= Len(items) THEN items[i] ELSE 0

RECURSIVE CompareItems(_, _, _)
CompareItems(a_items, b_items, i) ==
    LET l == IF Len(a_items) > Len(b_items) THEN Len(a_items) ELSE Len(b_items)
    IN  IF i > l THEN EQUAL
        ELSE IF ItemAt(a_items, i) > ItemAt(b_items, i) THEN GREATER
        ELSE IF ItemAt(a_items, i) < ItemAt(b_items, i) THEN LESSER
        ELSE CompareItems(a_items, b_items, i + 1)

compare_version_components(a, b) ==
    IF a.type = "null"
    THEN IF compare_component_with_null(b) = InternalError THEN InternalError
         ELSE (-1) * compare_component_with_null(b)
    ELSE IF b.type = "null" THEN compare_component_with_null(a)
    ELSE IF a.type = "numeric" /\ b.type = "string" THEN GREATER
    ELSE IF a.type = "string" /\ b.type = "numeric" THEN LESSER
    ELSE IF a.type = "numeric" /\ b.type = "numeric"
         THEN CompareItems(a.items, b.items, 1)
    ELSE LET a_item == lower(a.item)
             b_item == lower(b.item)
             inA == a_item \in DOMAIN string_version_orderings
             inB == b_item \in DOMAIN string_version_orderings
         IN  IF inA /\ inB
             THEN IF string_version_orderings[a_item] > string_version_orderings[b_item]
                  THEN GREATER
                  ELSE IF string_version_orderings[a_item] < string_version_orderings[b_item]
                       THEN LESSER
                       ELSE EQUAL
             ELSE IF inA /\ ~inB THEN GREATER
             ELSE IF ~inA /\ inB THEN LESSER
             ELSE IF TokenIndex(a_item) > TokenIndex(b_item) THEN GREATER
             ELSE IF TokenIndex(a_item) < TokenIndex(b_item) THEN LESSER
             ELSE EQUAL

ComponentAt(components, i) ==
    IF i <= Len(components) THEN components[i] ELSE NullComponent

RECURSIVE CompareFrom(_, _, _)
CompareFrom(a_components, b_components, i) ==
    LET l == IF Len(a_components) > Len(b_components)
             THEN Len(a_components) ELSE Len(b_components)
    IN  IF i > l THEN EQUAL
        ELSE LET c == compare_version_components(ComponentAt(a_components, i),
                                                 ComponentAt(b_components, i))
             IN  IF c # 0 THEN c
                 ELSE CompareFrom(a_components, b_components, i + 1)

compare_versions(a_components, b_components) ==
    CompareFrom(a_components, b_components, 1)

Version_gt(a, b) == compare_versions(Version_parsed_repr(a), Version_parsed_repr(b)) > 0
Version_lt(a, b) == compare_versions(Version_parsed_repr(a), Version_parsed_repr(b)) < 0
Version_ge(a, b) == compare_versions(Version_parsed_repr(a), Version_parsed_repr(b)) >= 0
Version_le(a, b) == compare_versions(Version_parsed_repr(a), Version_parsed_repr(b)) <= 0
Version_eq(a, b) == compare_versions(Version_parsed_repr(a), Version_parsed_repr(b)) = 0
Version_ne(a, b) == compare_versions(Version_parsed_repr(a), Version_parsed_repr(b)) # 0

\* NumericComponent.normalized_representation: the items before the first zero
RECURSIVE LeadingNonZero(_, _)
LeadingNonZero(items, i) ==
    IF i > Len(items) \/ items[i] = 0 THEN <<>>
    ELSE <<items[i]>> \o LeadingNonZero(items, i + 1)

normalized_representation(c) ==
    IF c.type = "numeric" THEN LeadingNonZero(c.items, 1) ELSE <<lower(c.item)>>

Version_norm_repr(s) ==
    LET p == Version_parsed_repr(s)
    IN  [i \in 1..Len(p) |-> normalized_representation(p[i])]

(***************************************************************************)
(* Version sets: an expression tree over the comparison specifiers.        *)
(***************************************************************************)
EqSpecifier(version) == [op |-> "==", version |-> version]
NotEqSpecifier(version) == [op |-> "!=", version |-> version]
GtEqSpecifier(version) == [op |-> ">=", version |-> version]
LtEqSpecifier(version) == [op |-> "<=", version |-> version]
GtSpecifier(version) == [op |-> ">", version |-> version]
LtSpecifier(version) == [op |-> "<", version |-> version]
AnySpecifier == [op |-> "any"]
NoneSpecifier == [op |-> "none"]
AndOperator(specifiers) == [op |-> "&", specifiers |-> specifiers]
OrOperator(specifiers) == [op |-> "|", specifiers |-> specifiers]
NotOperator(specifier) == [op |-> "!", specifier |-> specifier]

RECURSIVE allows_version(_, _)
allows_version(set, version) ==
    CASE set.op = "none" -> FALSE
      [] set.op = "any" -> TRUE
      [] set.op = "==" -> Version_eq(set.version, version)
      [] set.op = "!=" -> Version_ne(set.version, version)
      [] set.op = ">=" -> Version_ge(version, set.version)
      [] set.op = "<=" -> Version_le(version, set.version)
      [] set.op = ">" -> Version_gt(version, set.version)
      [] set.op = "<" -> Version_lt(version, set.version)
      [] set.op = "&" ->
            \A i \in 1..Len(set.specifiers) : allows_version(set.specifiers[i], version)
      [] set.op = "|" ->
            \E i \in 1..Len(set.specifiers) : allows_version(set.specifiers[i], version)
      [] set.op = "!" -> ~allows_version(set.specifier, version)

\* VersionSet.__contains__ / contains
contains(set, version) == allows_version(set, version)

complement(set) == NotOperator(set)

Requirement(package_name, version_set) ==
    [package_name |-> package_name, version_set |-> version_set]

(***************************************************************************)
(* Version objects (verpy/version/types.py).  A comparison works on the    *)
(* component lists of its operands; objects maps each Version object to    *)
(* its list, and the specifiers of a version set name the object they hold.*)
(***************************************************************************)
\* the while loops of compare_versions: NullComponents are appended to the
\* list until it has l elements
Padded(components, l) ==
    components \o [i \in 1..(l - Len(components)) |-> NullComponent]

\* the lists of the objects once compare_versions ran on those of a and b
ComparedObjects(objects, a, b) ==
    LET l == IF Len(objects[a]) > Len(objects[b])
             THEN Len(objects[a]) ELSE Len(objects[b])
    IN  [k \in DOMAIN objects |->
            IF k \in {a, b} THEN Padded(objects[k], l) ELSE objects[k]]

OpHolds(op, c) ==
    CASE op = ">" -> c > 0
      [] op = "<" -> c < 0
      [] op = ">=" -> c >= 0
      [] op = "<=" -> c <= 0
      [] op = "==" -> c = 0
      [] op = "!=" -> c # 0

\* Version.__gt__ .. __ne__ on the objects a and b: the value, or the
\* exception that ends the comparison, and the lists left behind
Version_compare(objects, op, a, b) ==
    LET after == ComparedObjects(objects, a, b)
        c == compare_versions(after[a], after[b])
    IN  [components |-> after,
         value |-> IF c = InternalError THEN "Exception"
                   ELSE IF OpHolds(op, c) THEN True ELSE False]

\* Version.__hash__: the hash of the tuple of the normalized representations;
\* a NullComponent has no normalized_representation
Version_hash(components) ==
    IF \E k \in 1..Len(components) : components[k].type = "null"
    THEN [error |-> "AttributeError", value |-> <<>>]
    ELSE [error |-> "",
          value |-> [k \in 1..Len(components) |->
                        normalized_representation(components[k])]]

\* VersionSet.union / intersection (complement is defined above)
union(a, b) == OrOperator(<<a, b>>)
intersection(a, b) == AndOperator(<<a, b>>)

\* VersionSet.difference: the complement of the intersection
difference(a, b) == complement(intersection(a, b))

\* contains of the specifiers and operators: the value, or the exception
\* that ends the evaluation, and the lists left behind.  The operators
\* evaluate their specifiers from left to right, all of them.
RECURSIVE VersionSet_contains(_, _, _)
RECURSIVE ContainsEach(_, _, _, _, _)
ContainsEach(specifiers, i, version, objects, values) ==
    IF i > Len(specifiers)
    THEN [values |-> values, components |-> objects, raised |-> FALSE]
    ELSE LET r == VersionSet_contains(specifiers[i], version, objects)
         IN  IF r.value = "Exception"
             THEN [values |-> values, components |-> r.components, raised |-> TRUE]
             ELSE ContainsEach(specifiers, i + 1, version, r.components,
                               values \cup {r.value})

VersionSet_contains(set, version, objects) ==
    CASE set.op = "none" -> [components |-> objects, value |-> False]
      [] set.op = "any" -> [components |-> objects, value |-> True]
      [] set.op \in {"==", "!="} -> Version_compare(objects, set.op, set.version, version)
      [] set.op \in {">=", "<=", ">", "<"} ->
            Version_compare(objects, set.op, version, set.version)
      [] set.op = "&" ->
            LET each == ContainsEach(set.specifiers, 1, version, objects, {})
            IN  [components |-> each.components,
                 value |-> IF each.raised THEN "Exception"
                           ELSE IF False \in each.values THEN False ELSE True]
      [] set.op = "|" ->
            LET each == ContainsEach(set.specifiers, 1, version, objects, {})
            IN  [components |-> each.components,
                 value |-> IF each.raised THEN "Exception"
                           ELSE IF True \in each.values THEN True ELSE False]
      [] set.op = "!" ->
            LET inner == VersionSet_contains(set.specifier, version, objects)
            IN  [components |-> inner.components,
                 value |-> IF inner.value = "Exception" THEN "Exception"
                           ELSE IF inner.value = True THEN False ELSE True]

(***************************************************************************)
(* Assignments, terms and clauses.                                         *)
(***************************************************************************)
\* F applied to the value of e (e is evaluated once)
With(e, F(_)) == CHOOSE y \in {F(x) : x \in {e}} : TRUE

NullVersion == "none"
RootName == "__root__"

Assignment(package_name, version) ==
    [class |-> "Assignment", package_name |-> package_name, version |-> version]

\* RootAssignment: the reserved name with the plain string "1.0" as version
RootAssignment ==
    [class |-> "RootAssignment", package_name |-> RootName, version |-> "1.0"]

\* Assignment.__hash__: the hash of (name, version); a Version hashes its
\* normalized representation, the root's version is a str and hashes as one
Assignment_hash(a) ==
    IF a.class = "RootAssignment"
    THEN <<"Assignment", a.package_name, <<"str", a.version>>>>
    ELSE <<"Assignment", a.package_name, <<"Version", Version_norm_repr(a.version)>>>>

\* Assignment.__eq__
Assignment_eq(a, b) == Assignment_hash(a) = Assignment_hash(b)

InList(a, list) == \E i \in 1..Len(list) : Assignment_eq(list[i], a)

as_requirement(a) == Requirement(a.package_name, EqSpecifier(a.version))
as_complement_requirement(a) ==
    Requirement(a.package_name, complement(EqSpecifier(a.version)))

Term(requirement) == [requirement |-> requirement]

NoAssignment == [class |-> "NoneType", package_name |-> "", version |-> ""]
NoRequirement == [package_name |-> "", version_set |-> NoneSpecifier]

Clause(terms) ==
    [class |-> "Clause", terms |-> terms,
     dependant |-> NoAssignment, dependency |-> NoRequirement]

\* a Dependency whose first term asks for the dependant instead of its
\* complement
Dependency_as_requirement(dependant, dependency) ==
    [class |-> "Dependency",
     terms |-> <<Term(as_requirement(dependant)), Term(dependency)>>,
     dependant |-> dependant, dependency |-> dependency]

Dependency(dependant, dependency) ==
    [class |-> "Dependency",
     terms |-> <<Term(as_complement_requirement(dependant)), Term(dependency)>>,
     dependant |-> dependant, dependency |-> dependency]

Incompatibility(terms) ==
    [class |-> "Incompatibility", terms |-> terms,
     dependant |-> NoAssignment, dependency |-> NoRequirement]

\* Term.truth_value: the first assignment of the term's package decides
Term_truth_value(term, assignments) ==
    IF \E i \in 1..Len(assignments) :
            assignments[i].package_name = term.requirement.package_name
    THEN LET i == CHOOSE j \in 1..Len(assignments) :
                    /\ assignments[j].package_name = term.requirement.package_name
                    /\ \A k \in 1..(j - 1) :
                          assignments[k].package_name # term.requirement.package_name
         IN  IF contains(term.requirement.version_set, assignments[i].version)
             THEN True ELSE False
    ELSE None

\* an evaluation that looks for an unknown term before a true one
Clause_truth_value_unknown_first(clause, assignments) ==
    With({Term_truth_value(clause.terms[i], assignments) : i \in 1..Len(clause.terms)},
         LAMBDA truth_values :
            IF None \in truth_values THEN None
            ELSE IF True \in truth_values THEN True
            ELSE False)

Clause_truth_value(clause, assignments) ==
    With({Term_truth_value(clause.terms[i], assignments) : i \in 1..Len(clause.terms)},
         LAMBDA truth_values :
            IF True \in truth_values THEN True
            ELSE IF None \in truth_values THEN None
            ELSE False)

\* Clause.get_package_names: the packages of the terms, first occurrence first
Dedup(names) ==
    With(names, LAMBDA ns :
        With(SelectSeq([i \in 1..Len(ns) |-> i],
                       LAMBDA i : \A j \in 1..(i - 1) : ns[j] # ns[i]),
             LAMBDA first : [k \in 1..Len(first) |-> ns[first[k]]]))

get_package_names(clause) ==
    Dedup([i \in 1..Len(clause.terms) |-> clause.terms[i].requirement.package_name])

(***************************************************************************)
(* The repository (DictRepository).  contents[p] maps the version strings  *)
(* of package p to the list of requirements of that version.               *)
(***************************************************************************)
\* sorted(keys, reverse=True): the greatest remaining version first
RECURSIVE SortedDescending(_)
SortedDescending(versions) ==
    IF versions = {} THEN <<>>
    ELSE With(CHOOSE v \in versions : \A w \in versions : Version_ge(v, w),
              LAMBDA top : <<top>> \o SortedDescending(versions \ {top}))

Repository_get_versions(contents, package_name) ==
    SortedDescending(DOMAIN contents[package_name])

Repository_get_dependencies(contents, package_name, package_version) ==
    contents[package_name][package_version]

\* SearchState.get_versions hands on what the repository returns: the sorted
\* list of a DictRepository, else the list in the repository's own order
get_versions(contents, listing, package_name) ==
    IF package_name \in DOMAIN listing
    THEN listing[package_name]
    ELSE Repository_get_versions(contents, package_name)

(***************************************************************************)
(* SearchState: the queries.                                               *)
(***************************************************************************)
get_assignment(assignments, package_name) ==
    IF \E i \in 1..Len(assignments) : assignments[i].package_name = package_name
    THEN assignments[CHOOSE i \in 1..Len(assignments) :
            /\ assignments[i].package_name = package_name
            /\ \A k \in 1..(i - 1) : assignments[k].package_name # package_name]
    ELSE NoAssignment

has_assignment(assignments, package_name) ==
    get_assignment(assignments, package_name) # NoAssignment

\* a load that replaces the clauses by the requirements of the assignment
\* instead of appending them
load_dependencies_replacing(contents, cl, mem, assignment) ==
    IF Version_ne(assignment.version, NullVersion) /\ ~InList(assignment, mem)
    THEN LET dependencies == Repository_get_dependencies(
                                 contents, assignment.package_name, assignment.version)
         IN  [clauses |-> [i \in 1..Len(dependencies) |->
                              Dependency(assignment, dependencies[i])],
              assignment_memory |-> Append(mem, assignment)]
    ELSE [clauses |-> cl, assignment_memory |-> mem]

\* a load that does not ask the memory whether the assignment was loaded
load_dependencies_again(contents, cl, mem, assignment) ==
    IF Version_ne(assignment.version, NullVersion)
    THEN LET dependencies == Repository_get_dependencies(
                                 contents, assignment.package_name, assignment.version)
         IN  [clauses |-> cl \o [i \in 1..Len(dependencies) |->
                                    Dependency(assignment, dependencies[i])],
              assignment_memory |-> Append(mem, assignment)]
    ELSE [clauses |-> cl, assignment_memory |-> mem]

\* load_dependencies applied to (clauses, assignment_memory)
load_dependencies(contents, cl, mem, assignment) ==
    IF Version_ne(assignment.version, NullVersion) /\ ~InList(assignment, mem)
    THEN LET dependencies == Repository_get_dependencies(
                                 contents, assignment.package_name, assignment.version)
         IN  [clauses |-> cl \o [i \in 1..Len(dependencies) |->
                                    Dependency(assignment, dependencies[i])],
              assignment_memory |-> Append(mem, assignment)]
    ELSE [clauses |-> cl, assignment_memory |-> mem]

\* the dependants of the clauses that require the package, in clause order
get_dependants(cl, assignments, assignment) ==
    LET idx == SelectSeq([i \in 1..Len(cl) |-> i],
                   LAMBDA i : /\ cl[i].class = "Dependency"
                              /\ cl[i].dependency.package_name = assignment.package_name
                              /\ InList(cl[i].dependant, assignments))
    IN  [k \in 1..Len(idx) |-> cl[idx[k]].dependant]

\* `clause.dependency in self.assignments` compares a Requirement with the
\* Assignments: Assignment.__eq__ compares hash(assignment) with the identity
\* hash of the Requirement object, which are never equal
Requirement_in_assignments(requirement, assignments) == FALSE

get_dependencies_assignments(cl, assignments, assignment) ==
    LET idx == SelectSeq([i \in 1..Len(cl) |-> i],
                   LAMBDA i : /\ cl[i].class = "Dependency"
                              /\ Assignment_eq(cl[i].dependant, assignment)
                              /\ Requirement_in_assignments(cl[i].dependency, assignments))
    IN  [k \in 1..Len(idx) |-> cl[idx[k]].dependant]

Ok(n) == [error |-> "", depth |-> n]
Raise(e) == [error |-> e, depth |-> -1]

\* get_assignment_depth.  The recursion follows the dependants left to right;
\* the first exception met ends it: min() of no dependants is a ValueError,
\* and a package met again on the current path recurses without end, which
\* the interpreter ends with a RecursionError.
RECURSIVE get_assignment_depth(_, _, _, _)
RECURSIVE DepthsFrom(_, _, _, _, _, _)
DepthsFrom(cl, assignments, dependants, i, path, best) ==
    IF i > Len(dependants) THEN Ok(best)
    ELSE With(get_assignment_depth(cl, assignments, dependants[i], path),
              LAMBDA d :
                 IF d.error # "" THEN d
                 ELSE DepthsFrom(cl, assignments, dependants, i + 1, path,
                                 IF best = -1 \/ d.depth + 1 < best
                                 THEN d.depth + 1 ELSE best))

get_assignment_depth(cl, assignments, assignment, path) ==
    IF assignment.class = "RootAssignment" THEN Ok(0)
    ELSE IF assignment.package_name \in path THEN Raise("RecursionError")
    ELSE With(get_dependants(cl, assignments, assignment),
              LAMBDA dependants :
                 With(DepthsFrom(cl, assignments, dependants, 1,
                                 path \cup {assignment.package_name}, -1),
                      LAMBDA depths :
                         IF depths.error # "" THEN depths
                         ELSE IF Len(dependants) = 0 THEN Raise("ValueError")
                         ELSE depths))

\* get_deepest_assignment_involving: the last assignment of greatest depth
RECURSIVE DeepestFrom(_, _, _, _, _, _)
DeepestFrom(cl, assignments, package_names, i, max_depth, deepest) ==
    IF i > Len(assignments) THEN [error |-> "", assignment |-> deepest]
    ELSE IF \E k \in 1..Len(package_names) :
                package_names[k] = assignments[i].package_name
         THEN With(get_assignment_depth(cl, assignments, assignments[i], {}),
                   LAMBDA d :
                      IF d.error # "" THEN [error |-> d.error, assignment |-> NoAssignment]
                      ELSE IF d.depth >= max_depth
                           THEN DeepestFrom(cl, assignments, package_names, i + 1,
                                            d.depth, assignments[i])
                           ELSE DeepestFrom(cl, assignments, package_names, i + 1,
                                            max_depth, deepest))
         ELSE DeepestFrom(cl, assignments, package_names, i + 1, max_depth, deepest)

get_deepest_assignment_involving(cl, assignments, package_names) ==
    DeepestFrom(cl, assignments, package_names, 1, -1, NoAssignment)

\* a remove that leaves the list as it is
RemoveFirst_keeping(assignments, assignment) == assignments

\* list.remove: drops the first element equal to the assignment
RemoveFirst(assignments, assignment) ==
    LET i == CHOOSE j \in 1..Len(assignments) :
                /\ Assignment_eq(assignments[j], assignment)
                /\ \A k \in 1..(j - 1) : ~Assignment_eq(assignments[k], assignment)
    IN  SubSeq(assignments, 1, i - 1) \o SubSeq(assignments, i + 1, Len(assignments))

\* backtrack: first the assignments get_dependencies_assignments names, then
\* the assignment itself; removing what is not in the list is a ValueError
RECURSIVE backtrack(_, _, _)
RECURSIVE BacktrackAll(_, _, _, _)
BacktrackAll(cl, res, dependencies, i) ==
    IF i > Len(dependencies) \/ res.error # "" THEN res
    ELSE BacktrackAll(cl, backtrack(cl, res.assignments, dependencies[i]),
                      dependencies, i + 1)

backtrack(cl, assignments, assignment) ==
    LET dependencies == IF assignment = NoAssignment THEN <<>>
                        ELSE get_dependencies_assignments(cl, assignments, assignment)
        res == BacktrackAll(cl, [error |-> "", assignments |-> assignments],
                            dependencies, 1)
    IN  IF res.error # "" THEN res
        ELSE IF assignment = NoAssignment \/ ~InList(assignment, res.assignments)
             THEN [error |-> "ValueError", assignments |-> res.assignments]
             ELSE [error |-> "", assignments |-> RemoveFirst(res.assignments, assignment)]

\* a completeness test that only looks for false clauses
solution_is_complete_unless_false(cl, assignments) ==
    \A i \in 1..Len(cl) : Clause_truth_value(cl[i], assignments) # False

solution_is_complete(cl, assignments) ==
    \A i \in 1..Len(cl) : Clause_truth_value(cl[i], assignments) = True

\* a search that finds only the clauses whose first term mentions the package
get_all_clauses_involving_package_first(cl, package_name) ==
    SelectSeq([i \in 1..Len(cl) |-> i],
              LAMBDA i : /\ Len(cl[i].terms) >= 1
                         /\ cl[i].terms[1].requirement.package_name = package_name)

\* indices (into clauses) of the clauses that mention the package
get_all_clauses_involving_package(cl, package_name) ==
    SelectSeq([i \in 1..Len(cl) |-> i],
              LAMBDA i : \E k \in 1..Len(cl[i].terms) :
                            cl[i].terms[k].requirement.package_name = package_name)

RECURSIVE Flatten(_)
Flatten(lists) ==
    IF lists = <<>> THEN <<>>
    ELSE With(lists, LAMBDA ls :
             Flatten(SubSeq(ls, 1, Len(ls) - 1)) \o ls[Len(ls)])

\* a search for unassigned packages that takes a Null assignment for none
get_unassigned_packages_null(cl, assignments) ==
    LET names == Dedup(Flatten([i \in 1..Len(cl) |-> get_package_names(cl[i])]))
    IN  SelectSeq(names,
                  LAMBDA n : \/ ~has_assignment(assignments, n)
                             \/ get_assignment(assignments, n).version = NullVersion)

get_unassigned_packages(cl, assignments) ==
    LET names == Dedup(Flatten([i \in 1..Len(cl) |-> get_package_names(cl[i])]))
    IN  SelectSeq(names, LAMBDA n : ~has_assignment(assignments, n))

get_unsatisfied_clauses(cl, assignments) ==
    SelectSeq([i \in 1..Len(cl) |-> i],
              LAMBDA i : Clause_truth_value(cl[i], assignments) = False)

\* a solution that also holds the packages assigned Version("none")
get_current_solution_with_null(assignments) ==
    LET chosen == SelectSeq(assignments, LAMBDA a : a.class # "RootAssignment")
    IN  [n \in {chosen[i].package_name : i \in 1..Len(chosen)} |->
            chosen[CHOOSE i \in 1..Len(chosen) : chosen[i].package_name = n].version]

\* get_current_solution: the (package, version) pairs of the returned dict;
\* a later assignment of a package overwrites an earlier one
get_current_solution(assignments) ==
    LET chosen == SelectSeq(assignments,
                      LAMBDA a : a.class # "RootAssignment"
                                 /\ Version_ne(a.version, NullVersion))
        names == {chosen[i].package_name : i \in 1..Len(chosen)}
    IN  [n \in names |->
            chosen[CHOOSE i \in 1..Len(chosen) :
                      /\ chosen[i].package_name = n
                      /\ \A k \in (i + 1)..Len(chosen) : chosen[k].package_name # n].version]

\* a trial that loads the candidate's requirements without recording the
\* candidate in the memory
try_assignment_unrecorded(contents, cl, mem, assignments, assignment_to_try) ==
    With(load_dependencies(contents, cl, mem, assignment_to_try), LAMBDA loaded :
    With(<<assignment_to_try>> \o
             SelectSeq(assignments,
                       LAMBDA a : a.package_name # assignment_to_try.package_name),
         LAMBDA assignments_to_use :
            [clauses |-> loaded.clauses,
             assignment_memory |-> mem,
             violated_clauses |->
                 SelectSeq(get_all_clauses_involving_package(
                               loaded.clauses, assignment_to_try.package_name),
                           LAMBDA i : Clause_truth_value(loaded.clauses[i],
                                                         assignments_to_use) = False)]))

\* _try_assignment: loads the candidate's requirements, then evaluates the
\* clauses of the package with the candidate in place of its assignment
try_assignment(contents, cl, mem, assignments, assignment_to_try) ==
    With(load_dependencies(contents, cl, mem, assignment_to_try), LAMBDA loaded :
    With(get_all_clauses_involving_package(
             loaded.clauses, assignment_to_try.package_name), LAMBDA relevant_clauses :
    With(<<assignment_to_try>> \o
             SelectSeq(assignments,
                       LAMBDA a : a.package_name # assignment_to_try.package_name),
         LAMBDA assignments_to_use :
            [clauses |-> loaded.clauses,
             assignment_memory |-> loaded.assignment_memory,
             violated_clauses |->
                 SelectSeq(relevant_clauses,
                           LAMBDA i : Clause_truth_value(loaded.clauses[i],
                                                         assignments_to_use) = False)])))

(***************************************************************************)
(* The frontier-based solver (verpy/solver2.py).  Its Book holds the       *)
(* assignments, the constraints and the frontiers: the packages still to   *)
(* be looked at.  An iteration of the loop is one step.                    *)
(***************************************************************************)
\* DependencyConstraint(assignment, requirement).  A Requirement hashes by
\* identity: index is the place of the requirement in the dependant's list.
DependencyConstraint(assignment, requirement, index) ==
    [class |-> "DependencyConstraint", assignment |-> assignment,
     requirement |-> requirement, index |-> index, assignments |-> {}]

\* IncompatibilityConstraint(assignments): the set of the assignments, whose
\* members are told apart by their hashes
IncompatibilityConstraint(assignments) ==
    [class |-> "IncompatibilityConstraint", assignment |-> NoAssignment,
     requirement |-> NoRequirement, index |-> 0,
     assignments |-> {Assignment_hash(assignments[i]) : i \in 1..Len(assignments)}]

is_constraint_on_package(constraint, name) ==
    IF constraint.class = "DependencyConstraint"
    THEN constraint.requirement.package_name = name
    ELSE \E h \in constraint.assignments : h[2] = name

is_violated_by(constraint, assignments) ==
    IF constraint.class = "DependencyConstraint"
    THEN \E i \in 1..Len(assignments) :
            /\ assignments[i].package_name = constraint.requirement.package_name
            /\ ~contains(constraint.requirement.version_set, assignments[i].version)
    ELSE constraint.assignments \subseteq
            {Assignment_hash(assignments[i]) : i \in 1..Len(assignments)}

\* _filter_allowed_version: the versions that violate none of the constraints
\* when assigned beside the assignments
filter_allowed_version(assignments, constraints, name, all_versions) ==
    SelectSeq(all_versions,
              LAMBDA version :
                 \A k \in 1..Len(constraints) :
                    ~is_violated_by(constraints[k],
                                    Append(assignments, Assignment(name, version))))

\* Book.add_constraint; names are the target package names of the constraint
\* in the order they are met
Book_add_constraint(book, constraint, names) ==
    IF book.error # "" THEN book
    ELSE IF \E i \in 1..Len(book.constraints) : book.constraints[i] = constraint
    THEN [book EXCEPT !.error = "AssertionError"]
    ELSE [book EXCEPT
             !.constraints = Append(@, constraint),
             !.frontiers = @ \o SelectSeq(Dedup(names),
                 LAMBDA n : /\ n # RootName
                            /\ \A i \in 1..Len(book.frontiers) : book.frontiers[i] # n)]

\* Book.add_assignment: the assignment, then a constraint for each of its
\* requirements
Book_add_assignment(book, assignment, dependencies) ==
    LET RECURSIVE AddConstraints(_, _)
        AddConstraints(b, i) ==
            IF i > Len(dependencies) THEN b
            ELSE AddConstraints(
                     Book_add_constraint(b,
                         DependencyConstraint(assignment, dependencies[i], i),
                         <<dependencies[i].package_name>>),
                     i + 1)
    IN  IF book.error # "" THEN book
        ELSE IF has_assignment(book.assignments, assignment.package_name)
        THEN [book EXCEPT !.error = "AssertionError"]
        ELSE AddConstraints([book EXCEPT !.assignments = Append(@, assignment)], 1)

\* Book.remove_assignment: the assignment of the package and the
\* DependencyConstraints it is the source of; remove_constraint puts their
\* targets among the frontiers
Book_remove_assignment(book, name) ==
    IF book.error # "" THEN book
    ELSE IF ~has_assignment(book.assignments, name)
    THEN [book EXCEPT !.error = "AssertionError"]
    ELSE LET assignment == get_assignment(book.assignments, name)
             own(c) == /\ c.class = "DependencyConstraint"
                       /\ Assignment_eq(c.assignment, assignment)
             removed == SelectSeq(book.constraints, own)
         IN  [book EXCEPT
                 !.assignments = RemoveFirst(@, assignment),
                 !.constraints = SelectSeq(@, LAMBDA c : ~own(c)),
                 !.frontiers = @ \o SelectSeq(
                     Dedup([k \in 1..Len(removed) |-> removed[k].requirement.package_name]),
                     LAMBDA n : /\ n # RootName
                                /\ \A i \in 1..Len(book.frontiers) : book.frontiers[i] # n)]

\* _find_incompatibilities.  Combinations is itertools.combinations(
\* constraints, 1), (constraints, 2), ...: the sets of positions by size, those
\* of one size in lexicographic order.  The loop rebinds its parameter
\* `assignments` to the assignments of the last incompatibility it built.
find_incompatibilities(assignments, constraints, name, all_versions) ==
    LET n == Len(constraints)
        before(S, T) ==
            \/ Cardinality(S) < Cardinality(T)
            \/ /\ Cardinality(S) = Cardinality(T)
               /\ S # T
               /\ (CHOOSE i \in 1..n :
                       /\ (i \in S) # (i \in T)
                       /\ \A j \in 1..(i - 1) : (j \in S) = (j \in T)) \in S
        RECURSIVE Combinations(_)
        Combinations(done) ==
            LET left == (SUBSET (1..n)) \ ({{}} \cup {done[k] : k \in 1..Len(done)})
            IN  IF left = {} THEN done
                ELSE Combinations(Append(done,
                         CHOOSE S \in left : \A T \in left \ {S} : before(S, T)))
        combinations == Combinations(<<>>)
        RECURSIVE FindFrom(_, _, _)
        FindFrom(i, rebound, found) ==
            IF i > Len(combinations) THEN found
            ELSE LET positions == SelectSeq([k \in 1..n |-> k],
                                            LAMBDA k : k \in combinations[i])
                     combination == [k \in 1..Len(positions) |->
                                        constraints[positions[k]]]
                     sources == [k \in 1..Len(combination) |->
                                    combination[k].assignment]
                     incompatibility == IncompatibilityConstraint(sources)
                 IN  IF filter_allowed_version(rebound, combination, name,
                                               all_versions) # <<>>
                     THEN FindFrom(i + 1, rebound, found)
                     ELSE FindFrom(i + 1, sources,
                              IF \E k \in 1..Len(found) :
                                    found[k].assignments \subseteq
                                        incompatibility.assignments
                              THEN found ELSE Append(found, incompatibility))
    IN  FindFrom(1, assignments, <<>>)

\* one iteration of the loop of solve_dependencies, from pop_frontier to the
\* continue or the end of the body; order is the order in which the sets of
\* assignments are iterated
Book_iterate(repository, book, order) ==
    LET name == book.frontiers[1]
        popped == [book EXCEPT !.frontiers = Tail(@)]
        on_package == SelectSeq(popped.constraints,
                                LAMBDA c : is_constraint_on_package(c, name))
        dependency_constraints ==
            SelectSeq(on_package, LAMBDA c : c.class = "DependencyConstraint")
        dependants == [k \in 1..Len(dependency_constraints) |->
                          dependency_constraints[k].assignment]
        last == dependants[Len(dependants)]
        assigned == has_assignment(popped.assignments, name)
        assignment == get_assignment(popped.assignments, name)
        others == IF assigned THEN RemoveFirst(popped.assignments, assignment)
                  ELSE popped.assignments
        allowed_versions ==
            filter_allowed_version(others, on_package, name,
                                   Repository_get_versions(repository, name))
        targets(c) == SelectSeq(order, LAMBDA n : \E h \in c.assignments : h[2] = n)
        incompatibilities ==
            find_incompatibilities(popped.assignments, dependency_constraints, name,
                                   <<assignment.version>>)
        RECURSIVE AddAll(_, _)
        AddAll(b, i) ==
            IF i > Len(incompatibilities) THEN b
            ELSE LET incompatibility ==
                         [incompatibilities[i] EXCEPT
                             !.assignments = @ \cup {Assignment_hash(assignment)}]
                 IN  AddAll(Book_add_constraint(b, incompatibility,
                                                targets(incompatibility)), i + 1)
    IN  IF dependency_constraints = <<>>
        THEN IF assigned THEN Book_remove_assignment(popped, name) ELSE popped
        ELSE IF name \notin DOMAIN repository
        THEN [popped EXCEPT !.error = "KeyError"]
        ELSE IF allowed_versions = <<>>
        THEN IF Len(dependants) = 1 /\ last.class = "RootAssignment"
             THEN [popped EXCEPT !.error = "Exception"]
             ELSE Book_remove_assignment(
                      Book_add_constraint(popped, IncompatibilityConstraint(dependants),
                                          targets(IncompatibilityConstraint(dependants))),
                      IF last.class = "RootAssignment"
                      THEN dependants[Len(dependants) - 1].package_name
                      ELSE last.package_name)
        ELSE IF assigned /\ \A k \in 1..Len(allowed_versions) :
                                Version_ne(assignment.version, allowed_versions[k])
        THEN Book_remove_assignment(AddAll(popped, 1), name)
        ELSE IF assigned /\ Version_eq(assignment.version, allowed_versions[1])
        THEN popped
        ELSE Book_add_assignment(
                 IF assigned THEN Book_remove_assignment(popped, name) ELSE popped,
                 Assignment(name, allowed_versions[1]),
                 Repository_get_dependencies(repository, name, allowed_versions[1]))

(***************************************************************************)
(* The transactional solver (verpy/solver4.py).  Its Book is a stack of    *)
(* transactions, each a list of operations; the assignments and the        *)
(* constraints are what the operations of all transactions give when       *)
(* applied in order.                                                       *)
(***************************************************************************)
\* a Book that sees the operations of its last transaction only
apply_all_last(transaction_list) ==
    LET operations == IF transaction_list = <<>> THEN <<>>
                      ELSE transaction_list[Len(transaction_list)]
        RECURSIVE Apply(_, _)
        Apply(book, i) ==
            IF i > Len(operations) \/ book.error # "" THEN book
            ELSE With(operations[i], LAMBDA o :
                 Apply(
                     IF o.op = "AddAssignment"
                     THEN [book EXCEPT !.assignments = Append(@, o.assignment)]
                     ELSE IF o.op = "RemoveAssignment"
                     THEN [book EXCEPT !.assignments = RemoveFirst(@, o.assignment)]
                     ELSE IF o.op = "AddConstraint"
                     THEN [book EXCEPT !.constraints = Append(@, o.constraint)]
                     ELSE [book EXCEPT !.constraints =
                              SelectSeq(@, LAMBDA c : c # o.constraint)],
                     i + 1))
    IN  Apply([assignments |-> <<>>, constraints |-> <<>>, error |-> ""], 1)

\* Book.assignments and Book.constraints: Transaction.apply_all of every
\* transaction on two empty lists.  An operation is AddAssignment,
\* RemoveAssignment, AddConstraint or RemoveConstraint; list.remove of what
\* is not in the list is a ValueError.
apply_all(transaction_list) ==
    LET operations == Flatten(transaction_list)
        RECURSIVE Apply(_, _)
        Apply(book, i) ==
            IF i > Len(operations) \/ book.error # "" THEN book
            ELSE With(operations[i], LAMBDA o :
                 Apply(
                     IF o.op = "AddAssignment"
                     THEN [book EXCEPT !.assignments = Append(@, o.assignment)]
                     ELSE IF o.op = "RemoveAssignment"
                     THEN IF InList(o.assignment, book.assignments)
                          THEN [book EXCEPT
                                   !.assignments = RemoveFirst(@, o.assignment)]
                          ELSE [book EXCEPT !.error = "ValueError"]
                     ELSE IF o.op = "AddConstraint"
                     THEN [book EXCEPT !.constraints = Append(@, o.constraint)]
                     ELSE IF \E k \in 1..Len(book.constraints) :
                                book.constraints[k] = o.constraint
                     THEN [book EXCEPT !.constraints =
                              With(CHOOSE k \in 1..Len(book.constraints) :
                                       /\ book.constraints[k] = o.constraint
                                       /\ \A j \in 1..(k - 1) :
                                              book.constraints[j] # o.constraint,
                                   LAMBDA k : SubSeq(book.constraints, 1, k - 1) \o
                                              SubSeq(book.constraints, k + 1,
                                                     Len(book.constraints)))]
                     ELSE [book EXCEPT !.error = "ValueError"],
                     i + 1))
    IN  Apply([assignments |-> <<>>, constraints |-> <<>>, error |-> ""], 1)

\* Book.add_assignment, add_constraint, remove_assignment and
\* remove_constraint of solver4, applied to the list of transactions: each
\* appends its operation to the last transaction.  remove_assignment also
\* removes the constraints the assignment is the source of, and
\* remove_constraint the assignment of the target once it has no dependant.
Book_operation(transaction_list, op, assignment, constraint) ==
    LET Add(t, o, a, c) ==
            [t EXCEPT ![Len(t)] = Append(@, [op |-> o, assignment |-> a,
                                             constraint |-> c])]
        Failed(s) == [s EXCEPT !.error = "AssertionError"]
        RECURSIVE remove_assignment(_, _), remove_constraint(_, _), RemoveOwn(_, _, _, _)
        remove_assignment(s, a) ==
            IF s.error # "" THEN s
            ELSE IF ~InList(a, apply_all(s.transactions).assignments) THEN Failed(s)
            ELSE With([s EXCEPT !.transactions =
                          Add(@, "RemoveAssignment", a, constraint)],
                      LAMBDA logged :
                         RemoveOwn(logged, apply_all(logged.transactions).constraints,
                                   1, a))
        RemoveOwn(s, snapshot, i, a) ==
            IF i > Len(snapshot) \/ s.error # "" THEN s
            ELSE IF /\ snapshot[i].class = "DependencyConstraint"
                    /\ Assignment_eq(snapshot[i].assignment, a)
                 THEN RemoveOwn(remove_constraint(s, snapshot[i]), snapshot, i + 1, a)
                 ELSE RemoveOwn(s, snapshot, i + 1, a)
        remove_constraint(s, c) ==
            IF s.error # "" THEN s
            ELSE IF \A k \in 1..Len(apply_all(s.transactions).constraints) :
                        apply_all(s.transactions).constraints[k] # c
            THEN Failed(s)
            ELSE With([s EXCEPT !.transactions =
                          Add(@, "RemoveConstraint", assignment, c)],
                      LAMBDA logged :
                      With(apply_all(logged.transactions), LAMBDA book :
                         IF /\ c.class = "DependencyConstraint"
                            /\ has_assignment(book.assignments,
                                              c.requirement.package_name)
                            /\ \A k \in 1..Len(book.constraints) :
                                  ~(/\ book.constraints[k].class = "DependencyConstraint"
                                    /\ book.constraints[k].requirement.package_name
                                           = c.requirement.package_name)
                         THEN remove_assignment(logged,
                                  get_assignment(book.assignments,
                                                 c.requirement.package_name))
                         ELSE logged))
        start == [transactions |-> transaction_list, error |-> ""]
        book == apply_all(transaction_list)
    IN  IF op = "add_assignment"
        THEN IF has_assignment(book.assignments, assignment.package_name)
             THEN Failed(start)
             ELSE [start EXCEPT !.transactions =
                      Add(@, "AddAssignment", assignment, constraint)]
        ELSE IF op = "add_constraint"
        THEN IF \E k \in 1..Len(book.constraints) : book.constraints[k] = constraint
             THEN Failed(start)
             ELSE [start EXCEPT !.transactions =
                      Add(@, "AddConstraint", assignment, constraint)]
        ELSE IF op = "remove_assignment"
        THEN remove_assignment(start, assignment)
        ELSE remove_constraint(start, constraint)

\* a rollback that keeps the operations of the transaction it closes
rollback_keeping(transaction_list) ==
    SubSeq(transaction_list, 1, Len(transaction_list) - 2) \o
    <<transaction_list[Len(transaction_list) - 1] \o
      transaction_list[Len(transaction_list)]>>

\* Book.rollback: the last transaction is popped
rollback(transaction_list) == SubSeq(transaction_list, 1, Len(transaction_list) - 1)

(***************************************************************************)
(* The inputs: repositories and root requirements.                         *)
(***************************************************************************)
\* the version sets of the requirements: >=1.0, <2.0 and ==v for each version
RequirementSets ==
    {GtEqSpecifier(VersionString(1)), LtSpecifier(VersionString(2))}
        \cup {EqSpecifier(v) : v \in RepoVersions}

Requirements == {Requirement(p, vs) : p \in Packages, vs \in RequirementSets}

\* an edge gives one version of one package one more requirement on another
\* package
Edges(counts) ==
    {e \in [package_name : Packages, n : 1..NumVersions, requirement : Requirements] :
        /\ e.n <= counts[e.package_name]
        /\ e.requirement.package_name # e.package_name}

RECURSIVE EdgeLists(_, _)
EdgeLists(edges, k) ==
    IF k = 0 THEN {<<>>}
    ELSE LET shorter == EdgeLists(edges, k - 1)
         IN  shorter \cup {Append(l, e) : l \in shorter, e \in edges}

RequirementsOf(edge_list, package_name, n) ==
    LET picked == SelectSeq(edge_list,
                      LAMBDA e : e.package_name = package_name /\ e.n = n)
    IN  [i \in 1..Len(picked) |-> picked[i].requirement]

\* DictRepository.__init__: contents[p][version] is the requirement list
MakeContents(counts, edge_list) ==
    [p \in Packages |->
        [v \in {VersionString(n) : n \in 1..counts[p]} |->
            RequirementsOf(edge_list, p,
                           CHOOSE n \in 1..counts[p] : VersionString(n) = v)]]

\* the repositories whose versions carry at most k requirements in total
RepositoriesUpTo(k) ==
    UNION {{MakeContents(counts, l) : l \in EdgeLists(Edges(counts), k)} :
              counts \in [Packages -> 0..NumVersions]}

Repositories == RepositoriesUpTo(MaxRequirements)

\* the root requires the first package (the package names are interchangeable)
RootRequirementLists ==
    {<<Requirement(PackageNames[1], vs)>> : vs \in RequirementSets}

(***************************************************************************)
(* The solver (solve_dependencies).                                        *)
(***************************************************************************)
VARIABLES
    contents,               \* package_repository.contents
    root_dependencies,      \* the argument of solve_dependencies
    clauses,                \* state.clauses
    assignments,            \* state.assignments
    assignment_memory,      \* state.assignment_memory
    pc,                     \* "start", "loop", "decide", "returned", "raised"
    package_name,           \* the package the iteration looks at
    probed,                 \* the candidates tried in this iteration, in order
    all_violated_clauses,   \* indices of the clauses some candidate violated
    version_to_assign,      \* the accepted candidate ("" while there is none)
    solution,               \* the returned dict
    exception,              \* the exception that ended the solve ("" if none)
    listing,                \* by package, the list get_versions returns when
                            \* the repository is no DictRepository
    lookups,                \* the package names repo.get_versions was called
                            \* with, in the order of the calls
    components,             \* the component lists of the Version objects
    result,                 \* what the last operation on them gave
    constraints,            \* book.constraints (solver2)
    frontiers,              \* book.frontiers (solver2)
    transactions,           \* book.transactions (solver4): the operations of each
    stack                   \* the calls of solver4 in progress, the caller first

vars == <<contents, root_dependencies, clauses, assignments, assignment_memory,
          pc, package_name, probed, all_violated_clauses, version_to_assign,
          solution, exception, listing, lookups, components, result,
          constraints, frontiers, transactions, stack>>

\* what the solver leaves alone
version_vars == <<components, result>>

\* the Book of the other solvers, which SearchState has none of
book_vars == <<constraints, frontiers, transactions, stack>>

NoVersion == ""
NoSolution == <<>>
NoListing == <<>>
NoObjects == <<>>
NoResult == [op |-> "", value |-> ""]

\* SearchState.__init__
InitState ==
    /\ clauses = <<>>
    /\ assignments = <<>>
    /\ assignment_memory = <<>>
    /\ pc = "start"
    /\ package_name = ""
    /\ probed = <<>>
    /\ all_violated_clauses = <<>>
    /\ version_to_assign = NoVersion
    /\ solution = NoSolution
    /\ exception = ""
    /\ lookups = <<>>
    /\ constraints = <<>>
    /\ frontiers = <<>>
    /\ transactions = <<>>
    /\ stack = <<>>

\* a solve on its own: no Version object is being compared beside it
NoComparison ==
    /\ components = NoObjects
    /\ result = NoResult

RepositoryInit ==
    /\ contents \in Repositories
    /\ root_dependencies \in RootRequirementLists
    /\ listing = NoListing
    /\ InitState
    /\ NoComparison

\* state.add_root_dependencies(*root_dependencies)
add_root_dependencies ==
    /\ pc = "start"
    /\ clauses' = <<Clause(<<Term(as_requirement(RootAssignment))>>)>> \o
                  [i \in 1..Len(root_dependencies) |->
                      Dependency(RootAssignment, root_dependencies[i])]
    /\ assignments' = <<RootAssignment>>
    /\ pc' = "loop"
    /\ UNCHANGED <<contents, listing, lookups, version_vars, book_vars, root_dependencies,
                   assignment_memory, package_name, probed, all_violated_clauses,
                   version_to_assign, solution, exception>>

\* a candidate list with the real versions before Version("none")
Candidates_null_last(all_versions) == all_versions \o <<NullVersion>>

\* [Version("none"), *all_versions]
Candidates(all_versions) == <<NullVersion>> \o all_versions

\* the for loop over the candidates
RECURSIVE TryCandidates(_, _, _, _, _, _)
TryCandidates(candidates, i, cl, mem, violated, name) ==
    IF i > Len(candidates)
    THEN [clauses |-> cl, assignment_memory |-> mem, all_violated_clauses |-> violated,
          version_to_assign |-> NoVersion, probed |-> candidates]
    ELSE With(Assignment(name, candidates[i]), LAMBDA assignment_to_try :
         With(try_assignment(contents, cl, mem, assignments, assignment_to_try),
              LAMBDA try :
                 IF Len(try.violated_clauses) = 0
                 THEN [clauses |-> try.clauses,
                       assignment_memory |-> try.assignment_memory,
                       all_violated_clauses |-> violated,
                       version_to_assign |-> candidates[i],
                       probed |-> SubSeq(candidates, 1, i)]
                 ELSE With(violated \o SelectSeq(try.violated_clauses,
                               LAMBDA c : \A k \in 1..Len(violated) : violated[k] # c),
                           LAMBDA all :
                              TryCandidates(candidates, i + 1, try.clauses,
                                            try.assignment_memory, all, name))))

Raises(e) ==
    /\ pc' = "raised"
    /\ exception' = e

\* one pass of the while loop up to the choice of the version: picks the
\* first unassigned package and tries its candidates
Probe ==
    /\ pc = "loop"
    /\ ~solution_is_complete(clauses, assignments)
    /\ \E unassigned \in {get_unassigned_packages(clauses, assignments)} :
           IF Len(unassigned) = 0
           THEN /\ Raises("IndexError")
                /\ UNCHANGED <<clauses, assignment_memory, package_name, probed,
                               all_violated_clauses, version_to_assign, lookups>>
           ELSE IF unassigned[1] \notin DOMAIN contents
           THEN /\ Raises("KeyError")
                /\ package_name' = unassigned[1]
                /\ lookups' = Append(lookups, unassigned[1])
                /\ UNCHANGED <<clauses, assignment_memory, probed,
                               all_violated_clauses, version_to_assign>>
           ELSE \E all_versions \in {get_versions(contents, listing, unassigned[1])} :
                \E r \in {TryCandidates(Candidates(all_versions), 1, clauses,
                                        assignment_memory, <<>>, unassigned[1])} :
                    /\ package_name' = unassigned[1]
                    /\ lookups' = Append(lookups, unassigned[1])
                    /\ clauses' = r.clauses
                    /\ assignment_memory' = r.assignment_memory
                    /\ all_violated_clauses' = r.all_violated_clauses
                    /\ version_to_assign' = r.version_to_assign
                    /\ probed' = r.probed
                    /\ pc' = "decide"
                    /\ UNCHANGED exception
    /\ UNCHANGED <<contents, listing, version_vars, book_vars, root_dependencies, assignments,
                   solution>>

\* the terms of the first violated clause only
LearnedTerms_first(cl, violated, name) ==
    SelectSeq(cl[violated[1]].terms, LAMBDA t : t.requirement.package_name # name)

\* the terms of the violated clauses that are not about the package
LearnedTerms(cl, violated, name) ==
    Flatten([k \in 1..Len(violated) |->
                SelectSeq(cl[violated[k]].terms,
                          LAMBDA t : t.requirement.package_name # name)])

\* no candidate was accepted: learn an incompatibility and backtrack
Learn ==
    /\ pc = "decide"
    /\ version_to_assign = NoVersion
    /\ Len(clauses) < MaxClauses
    /\ \E incompatibility \in {Incompatibility(
               LearnedTerms(clauses, all_violated_clauses, package_name))} :
       \E deepest \in {get_deepest_assignment_involving(
               Append(clauses, incompatibility), assignments,
               get_package_names(incompatibility))} :
       \E back \in {backtrack(Append(clauses, incompatibility), assignments,
                              deepest.assignment)} :
           /\ clauses' = Append(clauses, incompatibility)
           /\ IF deepest.error # ""
              THEN /\ Raises(deepest.error)
                   /\ UNCHANGED assignments
              ELSE IF back.error # ""
              THEN /\ Raises(back.error)
                   /\ assignments' = back.assignments
              ELSE /\ assignments' = back.assignments
                   /\ pc' = "loop"
                   /\ UNCHANGED exception
    /\ UNCHANGED <<contents, listing, lookups, version_vars, book_vars, root_dependencies,
                   assignment_memory, package_name, probed, all_violated_clauses,
                   version_to_assign, solution>>

\* a candidate was accepted: the elif branch for a package that already has
\* an assignment, else add_assignment
Assign ==
    /\ pc = "decide"
    /\ version_to_assign # NoVersion
    /\ IF has_assignment(assignments, package_name)
       THEN \E assignment \in {get_assignment(assignments, package_name)} :
            \E back \in {backtrack(clauses, assignments, assignment)} :
                IF Version_ne(assignment.version, version_to_assign)
                THEN /\ assignments' = back.assignments
                     /\ IF back.error # "" THEN Raises(back.error)
                        ELSE pc' = "loop" /\ UNCHANGED exception
                     /\ UNCHANGED <<clauses, assignment_memory>>
                ELSE /\ Raises("AssertionError")
                     /\ UNCHANGED <<clauses, assignments, assignment_memory>>
       ELSE \E assignment \in {Assignment(package_name, version_to_assign)} :
            \E loaded \in {load_dependencies(contents, clauses, assignment_memory,
                                             assignment)} :
                /\ assignments' = Append(assignments, assignment)
                /\ clauses' = loaded.clauses
                /\ assignment_memory' = loaded.assignment_memory
                /\ pc' = "loop"
                /\ UNCHANGED exception
    /\ UNCHANGED <<contents, listing, lookups, version_vars, book_vars, root_dependencies, package_name,
                   probed, all_violated_clauses, version_to_assign, solution>>

\* the loop condition fails: return state.get_current_solution()
Return ==
    /\ pc = "loop"
    /\ solution_is_complete(clauses, assignments)
    /\ solution' = get_current_solution(assignments)
    /\ pc' = "returned"
    /\ UNCHANGED <<contents, listing, lookups, version_vars, book_vars, root_dependencies, clauses,
                   assignments, assignment_memory, package_name, probed,
                   all_violated_clauses, version_to_assign, exception>>

Next == add_root_dependencies \/ Probe \/ Learn \/ Assign \/ Return

(***************************************************************************)
(* The repositories of tests/test_solver.py and three further ones: inputs *)
(* beside the enumerated repositories.                                     *)
(***************************************************************************)
ge(p, v) == Requirement(p, GtEqSpecifier(v))
eq(p, v) == Requirement(p, EqSpecifier(v))
lt(p, v) == Requirement(p, LtSpecifier(v))
range(p, lo, hi) ==
    Requirement(p, AndOperator(<<GtEqSpecifier(lo), LtSpecifier(hi)>>))
NoVersions == <<>>

test_solver_1 ==
    [root_dependencies |-> <<ge("bar", "1.0"), range("foo", "1.0", "2.0")>>,
     contents |-> [foo |-> ("1.0" :> <<range("bar", "1.0", "2.0")>>),
                   bar |-> ("1.0" :> <<eq("baz", "1.0")>>) @@
                           ("2.0" :> <<eq("taz", "2.0")>>),
                   baz |-> ("1.0" :> <<>>),
                   taz |-> ("2.0" :> <<>>)]]

test_solver_2 ==
    [root_dependencies |-> <<ge("bar", "1.0")>>,
     contents |-> [foo |-> ("1.0" :> <<eq("bar", "1.0")>>),
                   bar |-> ("1.0" :> <<eq("baz", "1.0")>>) @@
                           ("2.0" :> <<eq("foo", "1.0")>>),
                   baz |-> ("1.0" :> <<>>)]]

test_solver_3 ==
    [root_dependencies |-> <<ge("bar", "1.0")>>,
     contents |-> [foo |-> ("1.0" :> <<ge("taz", "1.0")>>) @@
                           ("2.0" :> <<ge("taz", "1.0")>>),
                   bar |-> ("1.0" :> <<eq("baz", "1.0")>>) @@
                           ("2.0" :> <<eq("foo", "1.0")>>),
                   taz |-> ("1.0" :> <<eq("bar", "1.0")>>) @@
                           ("2.0" :> <<eq("bar", "1.0")>>),
                   baz |-> ("1.0" :> <<>>)]]

test_solver_4 ==
    [root_dependencies |-> <<ge("bar", "1.0")>>,
     contents |-> [foo |-> ("1.0" :> <<ge("taz", "1.0")>>),
                   bar |-> ("1.0" :> <<eq("baz", "1.0")>>) @@
                           ("2.0" :> <<eq("foo", "1.0")>>),
                   taz |-> ("1.0" :> <<eq("bar", "2.0")>>) @@
                           ("2.0" :> <<eq("bar", "1.0")>>),
                   baz |-> ("1.0" :> <<>>)]]

test_solver_5 ==
    [root_dependencies |-> <<ge("bar", "1.0")>>,
     contents |-> [foo |-> ("1.0" :> <<eq("bar", "1.0")>>),
                   bar |-> ("2.0" :> <<eq("foo", "1.0")>>),
                   baz |-> ("1.0" :> <<>>)]]

test_solver_6 ==
    [root_dependencies |-> <<ge("c", "1.0"), ge("y", "2.0")>>,
     contents |-> [a |-> ("1.0" :> <<ge("x", "1.0")>>),
                   b |-> ("1.0" :> <<lt("x", "2.0")>>),
                   c |-> ("1.0" :> <<>>) @@
                         ("2.0" :> <<ge("a", "1"), ge("b", "1")>>),
                   x |-> ("0.0" :> <<>>) @@
                         ("1.0" :> <<eq("y", "1.0")>>) @@
                         ("2.0" :> <<>>),
                   y |-> ("1.0" :> <<>>) @@ ("2.0" :> <<>>)]]

\* the dict of the test names "2.0" twice under bar; the later entry stays
test_solver_7 ==
    [root_dependencies |-> <<ge("foo", "1.0")>>,
     contents |-> [foo |-> ("1.0" :> <<eq("bar", "1.0")>>) @@
                           ("2.0" :> <<eq("bar", "2.0")>>) @@
                           ("3.0" :> <<eq("bar", "3.0")>>),
                   bar |-> ("1.0" :> <<ge("baz", "1.0")>>) @@
                           ("2.0" :> <<eq("foo", "3.0")>>),
                   baz |-> ("1.0" :> <<>>)]]

test_solver_8 ==
    [root_dependencies |-> <<ge("bar", "1.0"), ge("foo", "1.0"), ge("baz", "1.0")>>,
     contents |-> [foo |-> ("1.0" :> <<eq("taz", "1.0")>>),
                   bar |-> ("1.0" :> <<ge("taz", "1.0")>>) @@
                           ("2.0" :> <<eq("taz", "3.0")>>),
                   baz |-> ("1.0" :> <<ge("taz", "1.0")>>) @@
                           ("2.0" :> <<lt("taz", "3.0")>>),
                   taz |-> ("1.0" :> <<>>) @@ ("2.0" :> <<>>) @@ ("3.0" :> <<>>)]]

test_solver_9 ==
    [root_dependencies |-> <<ge("bar", "1.0")>>,
     contents |-> [foo |-> ("1.0" :> <<eq("bar", "1.0")>>),
                   bar |-> ("1.0" :> <<eq("baz", "1.0")>>) @@
                           ("2.0" :> <<eq("baz", "1.0")>>) @@
                           ("3.0" :> <<eq("foo", "1.0")>>),
                   baz |-> ("1.0" :> <<>>)]]

\* c 1.0 -> b 1.0 -> a 1.0 is a solution; c 2.0 only mentions a
chain_repository ==
    [root_dependencies |-> <<eq("c", "1.0")>>,
     contents |-> [a |-> ("1.0" :> <<>>),
                   b |-> ("1.0" :> <<ge("a", "1.0")>>),
                   c |-> ("1.0" :> <<ge("b", "1.0")>>) @@
                         ("2.0" :> <<ge("a", "1.0")>>)]]

\* a 2.0 needs b and the unavailable c; a 1.0 needs nothing
optional_repository ==
    [root_dependencies |-> <<ge("a", "1.0")>>,
     contents |-> [a |-> ("1.0" :> <<>>) @@
                         ("2.0" :> <<ge("b", "1.0"), ge("c", "1.0")>>),
                   b |-> ("1.0" :> <<>>),
                   c |-> NoVersions]]

\* a 2.0 and b 2.0 require each other; a 2.0 with b 1.0 is a solution
cycle_repository ==
    [root_dependencies |-> <<eq("a", "2.0")>>,
     contents |-> [a |-> ("2.0" :> <<ge("b", "1.0")>>),
                   b |-> ("1.0" :> <<>>) @@
                         ("2.0" :> <<ge("a", "1.0"), ge("c", "3.0")>>),
                   c |-> NoVersions]]

\* a 0.1 needs b, a 0.2 needs nothing; the root asks for a 0.1
prerelease_repository ==
    [root_dependencies |-> <<eq("a", "0.1")>>,
     contents |-> [a |-> ("0.1" :> <<ge("b", "1.0")>>) @@ ("0.2" :> <<>>),
                   b |-> ("1.0" :> <<>>)]]

Scenarios ==
    {test_solver_1, test_solver_2, test_solver_3, test_solver_4, test_solver_5,
     test_solver_6, test_solver_7, test_solver_8, test_solver_9,
     chain_repository, optional_repository, cycle_repository,
     prerelease_repository}

ScenarioInit ==
    /\ \E s \in Scenarios :
          /\ contents = s.contents
          /\ root_dependencies = s.root_dependencies
    /\ listing = NoListing
    /\ InitState
    /\ NoComparison

\* a repository that is no DictRepository: get_versions lists the versions
\* of a in ascending order
ascending_repository ==
    [root_dependencies |-> <<ge("a", "2.0")>>,
     contents |-> [a |-> ("1.0" :> <<>>) @@ ("2.0" :> <<>>) @@ ("3.0" :> <<>>)],
     listing |-> [a |-> <<"1.0", "2.0", "3.0">>]]

ListingInit ==
    /\ contents = ascending_repository.contents
    /\ root_dependencies = ascending_repository.root_dependencies
    /\ listing = ascending_repository.listing
    /\ InitState
    /\ NoComparison

Init == RepositoryInit \/ ScenarioInit \/ ListingInit

Spec == Init /\ [][Next]_vars

\* The runs that are followed to their end: the scenarios and the
\* repositories with one requirement less than MaxRequirements.
FairInit ==
    \/ /\ contents \in RepositoriesUpTo(MaxRequirements - 1)
       /\ root_dependencies \in RootRequirementLists
       /\ listing = NoListing
       /\ InitState
       /\ NoComparison
    \/ ScenarioInit

\* the program runs on: it takes its next step whenever it has one
FairSpec == FairInit /\ [][Next]_vars /\ WF_vars(Next)

(***************************************************************************)
(* Operations on Version objects and version sets (version/types.py): a    *)
(* program that holds NumObjects parsed versions and compares them, hashes *)
(* them and asks version sets built over them for membership, in any       *)
(* order.                                                                  *)
(***************************************************************************)
\* number of Version objects
NumObjects == 2
\* a parsed version has at most this many components
MaxComponents == 2

Objects == 1..NumObjects

\* the components of the parsed versions: 1, 1.0, 1.0.1, two tokens of one
\* rank of the table, a token above the release rank and a token outside the
\* table
ComponentPool ==
    {NumericComponent(<<1>>), NumericComponent(<<1, 0>>),
     NumericComponent(<<1, 0, 1>>),
     StringComponent("alpha"), StringComponent("a"),
     StringComponent("SNAPSHOT"), StringComponent("x")}

RECURSIVE ComponentLists(_)
ComponentLists(n) ==
    IF n = 0 THEN {<<>>}
    ELSE LET shorter == ComponentLists(n - 1)
         IN  shorter \cup {Append(l, c) : l \in shorter, c \in ComponentPool}

\* what parse_version hands to Version: a list of one to MaxComponents
\* numeric and alphabetic components
ParsedVersions == ComponentLists(MaxComponents) \ {<<>>}

CompareOps == {"<", "<=", "==", "!=", ">=", ">"}

\* the version sets that are asked: eq and gteq of the objects, their
\* complements, and the unions, intersections and differences of an eq with
\* a gteq
Specifiers == UNION {{EqSpecifier(k), GtEqSpecifier(k)} : k \in Objects}
VersionSets ==
    Specifiers
        \cup {complement(a) : a \in Specifiers}
        \cup {union(EqSpecifier(j), GtEqSpecifier(k)) : j, k \in Objects}
        \cup {intersection(EqSpecifier(j), GtEqSpecifier(k)) : j, k \in Objects}
        \cup {difference(GtEqSpecifier(j), EqSpecifier(k)) : j, k \in Objects}

solver_vars == <<contents, listing, lookups, root_dependencies, clauses, assignments,
                 assignment_memory, pc, package_name, probed,
                 all_violated_clauses, version_to_assign, solution, exception>>

NoContents == <<>>

\* no repository and no solve beside the comparisons
NoSolve ==
    /\ contents = NoContents
    /\ root_dependencies = <<>>
    /\ listing = NoListing
    /\ InitState

VersionInit ==
    /\ components \in [Objects -> ParsedVersions]
    /\ result = NoResult
    /\ NoSolve

\* a op b for two of the objects
Compare ==
    \E a, b \in Objects, op \in CompareOps :
        \E r \in {Version_compare(components, op, a, b)} :
            /\ components' = r.components
            /\ result' = [op |-> op, value |-> r.value]
            /\ UNCHANGED <<solver_vars, book_vars>>

\* hash(a)
Hash ==
    \E a \in Objects :
        \E h \in {Version_hash(components[a])} :
            /\ result' = [op |-> "hash",
                          value |-> IF h.error # "" THEN h.error ELSE "int"]
            /\ UNCHANGED <<components, solver_vars, book_vars>>

\* set.contains(v)
Contains ==
    \E set \in VersionSets, v \in Objects :
        \E r \in {VersionSet_contains(set, v, components)} :
            /\ components' = r.components
            /\ result' = [op |-> "contains", value |-> r.value]
            /\ UNCHANGED <<solver_vars, book_vars>>

VersionNext == Compare \/ Hash \/ Contains

VersionSpec == VersionInit /\ [][VersionNext]_vars

(***************************************************************************)
(* solver2.solve_dependencies: the program.                                *)
(***************************************************************************)
\* the root lists of solver2: one requirement, or two on one package
Solver2Init ==
    \/ /\ contents \in Repositories
       /\ root_dependencies \in
              RootRequirementLists \cup
                  {r \o q : r \in RootRequirementLists, q \in RootRequirementLists}
       /\ listing = NoListing
       /\ InitState
       /\ NoComparison
    \/ ScenarioInit

\* solver2.solve_dependencies: add_root_assignment, then the loop while the
\* book has frontiers, then the assignments without the root
solve_dependencies_2 ==
    /\ UNCHANGED <<contents, listing, lookups, version_vars, root_dependencies, clauses,
                   assignment_memory, package_name, probed, all_violated_clauses,
                   version_to_assign, transactions, stack>>
    /\ \/ /\ pc = "start"
          /\ \E book \in {Book_add_assignment(
                      [assignments |-> <<>>, constraints |-> <<>>, frontiers |-> <<>>,
                       error |-> ""],
                      [RootAssignment EXCEPT !.version = "0"], root_dependencies)} :
                 /\ assignments' = book.assignments
                 /\ constraints' = book.constraints
                 /\ frontiers' = book.frontiers
                 /\ exception' = book.error
                 /\ pc' = IF book.error # "" THEN "raised" ELSE "loop"
          /\ UNCHANGED solution
       \/ /\ pc = "loop"
          /\ frontiers # <<>>
          /\ \E order \in {o \in [1..Cardinality(DOMAIN contents) + 1 ->
                                      DOMAIN contents \cup {RootName}] :
                                \A i, j \in DOMAIN o : o[i] = o[j] => i = j} :
             \E book \in {Book_iterate(contents,
                      [assignments |-> assignments, constraints |-> constraints,
                       frontiers |-> frontiers, error |-> ""], order)} :
                 /\ assignments' = book.assignments
                 /\ constraints' = book.constraints
                 /\ frontiers' = book.frontiers
                 /\ exception' = book.error
                 /\ pc' = IF book.error # "" THEN "raised" ELSE "loop"
          /\ UNCHANGED solution
       \/ /\ pc = "loop"
          /\ frontiers = <<>>
          /\ solution' = SelectSeq(assignments, LAMBDA a : a.class # "RootAssignment")
          /\ pc' = "returned"
          /\ UNCHANGED <<assignments, constraints, frontiers, exception>>

Solver2Spec == Solver2Init /\ [][solve_dependencies_2]_vars

(***************************************************************************)
(* solver4.solve_dependencies: the program.  stack holds a frame for every *)
(* call in progress: the call of solve_dependencies at the bottom, above   *)
(* it the calls of solve_dependencies_recursive.  A frame records where    *)
(* the call stands, its local variables, and at entry the number of        *)
(* transactions and the assignments and constraints of the book.           *)
(***************************************************************************)
\* deepest nesting of calls that is followed
MaxDepth == 8

\* The repositories and the scenarios, and a diamond whose newest version of
\* a needs b and c, while b needs the older version of a.
Solver4Init ==
    \/ RepositoryInit
    \/ ScenarioInit
    \/ /\ contents = [a |-> ("2.0" :> <<ge("b", "1.0"), ge("c", "1.0")>>) @@
                            ("1.0" :> <<>>),
                      b |-> ("1.0" :> <<eq("a", "1.0"), ge("c", "1.0")>>),
                      c |-> ("1.0" :> <<>>)]
       /\ root_dependencies = <<ge("a", "1.0")>>
       /\ listing = NoListing
       /\ InitState
       /\ NoComparison

\* One step of solver4.solve_dependencies or of the call of
\* solve_dependencies_recursive on top of the stack.  A SolverError in
\* flight is in exception while pc = "loop"; an error that is no
\* SolverError is caught by nobody.
solve_dependencies_4 ==
    LET top == stack[Len(stack)]
        book == apply_all(transactions)
        Frame(name) ==
            [package_name |-> name, state |-> "enter", allowed_versions |-> <<>>,
             version |-> 1, curr_assignment |-> NoAssignment,
             assignment |-> NoAssignment, dependencies |-> <<>>, requirement |-> 1,
             entry |-> [transactions |-> Len(transactions),
                        assignments |-> book.assignments,
                        constraints |-> book.constraints]]
        Caller == SubSeq(stack, 1, Len(stack) - 1)
        Replace(frame) == [stack EXCEPT ![Len(stack)] = frame]
        Uncaught(error) ==
            /\ pc' = "raised"
            /\ exception' = error
            /\ UNCHANGED <<transactions, stack, solution>>
        RaiseSolverError(error) ==
            /\ exception' = error
            /\ stack' = Caller
            /\ UNCHANGED <<transactions, pc, solution>>
    IN
    /\ UNCHANGED <<contents, listing, lookups, version_vars, root_dependencies, clauses,
                   assignment_memory, package_name, probed, all_violated_clauses,
                   version_to_assign, assignments, constraints, frontiers>>
    /\ \/ /\ pc = "start"
          \* book = Book(package_repository); book.add_assignment(root_assignment)
          /\ \E root \in {[RootAssignment EXCEPT !.version = "0"]} :
                /\ transactions' =
                       Book_operation(<<<<>>>>, "add_assignment", root,
                                      DependencyConstraint(root, NoRequirement, 0)
                                     ).transactions
                /\ stack' = <<[Frame(RootName) EXCEPT
                                  !.state = "dependencies", !.assignment = root,
                                  !.dependencies = root_dependencies,
                                  !.entry = [transactions |-> 1, assignments |-> <<>>,
                                             constraints |-> <<>>]]>>
          /\ pc' = "loop"
          /\ UNCHANGED <<solution, exception>>
       \/ /\ pc = "loop"
          /\ exception = ""
          /\ top.state = "enter"
          \* allowed_versions, the check of the existing assignment
          /\ IF top.package_name \notin DOMAIN contents
             THEN Uncaught("KeyError")
             ELSE \E allowed_versions \in {filter_allowed_version(
                         SelectSeq(book.assignments,
                                   LAMBDA x : x.package_name # top.package_name),
                         SelectSeq(book.constraints,
                                   LAMBDA c : is_constraint_on_package(c,
                                                  top.package_name)),
                         top.package_name,
                         get_versions(contents, listing, top.package_name))},
                     curr_assignment \in {get_assignment(book.assignments,
                                                         top.package_name)} :
                     IF Len(allowed_versions) = 0
                     THEN RaiseSolverError("NoAllowedVersionsError")
                     ELSE IF /\ curr_assignment # NoAssignment
                             /\ \E k \in 1..Len(allowed_versions) :
                                   Version_eq(curr_assignment.version,
                                              allowed_versions[k])
                     THEN /\ stack' = Caller
                          /\ UNCHANGED <<transactions, pc, solution, exception>>
                     ELSE /\ stack' = Replace([top EXCEPT
                                 !.state = "versions",
                                 !.allowed_versions = allowed_versions,
                                 !.curr_assignment = curr_assignment])
                          /\ UNCHANGED <<transactions, pc, solution, exception>>
       \/ /\ pc = "loop"
          /\ exception = ""
          /\ top.state = "versions"
          \* for version in allowed_versions: begin_transaction, the removal
          \* of the existing assignment, add_assignment
          /\ IF top.version > Len(top.allowed_versions)
             THEN RaiseSolverError("AllAssignmentsFailed")
             ELSE \E assignment \in {Assignment(top.package_name,
                                         top.allowed_versions[top.version])} :
                  \E removed \in {
                         IF top.curr_assignment = NoAssignment
                         THEN [transactions |-> Append(transactions, <<>>),
                               error |-> ""]
                         ELSE Book_operation(Append(transactions, <<>>),
                                  "remove_assignment", top.curr_assignment,
                                  DependencyConstraint(assignment, NoRequirement, 0))} :
                  \E added \in {
                         IF removed.error # "" THEN removed
                         ELSE Book_operation(removed.transactions, "add_assignment",
                                  assignment,
                                  DependencyConstraint(assignment, NoRequirement, 0))} :
                     /\ transactions' = added.transactions
                     /\ IF added.error # ""
                        THEN /\ pc' = "raised"
                             /\ exception' = added.error
                             /\ UNCHANGED <<stack, solution>>
                        ELSE /\ stack' = Replace([top EXCEPT
                                    !.state = "dependencies",
                                    !.assignment = assignment,
                                    !.dependencies =
                                        Repository_get_dependencies(contents,
                                            top.package_name,
                                            top.allowed_versions[top.version]),
                                    !.requirement = 1])
                             /\ UNCHANGED <<pc, solution, exception>>
       \/ /\ pc = "loop"
          /\ exception = ""
          /\ top.state = "dependencies"
          /\ top.requirement <= Len(top.dependencies)
          /\ Len(stack) < MaxDepth
          \* book.add_constraint(DependencyConstraint(assignment, requirement))
          \* and the recursive call
          /\ \E added \in {Book_operation(transactions, "add_constraint",
                               top.assignment,
                               DependencyConstraint(top.assignment,
                                   top.dependencies[top.requirement],
                                   top.requirement))} :
                /\ transactions' = added.transactions
                /\ IF added.error # ""
                   THEN /\ pc' = "raised"
                        /\ exception' = added.error
                        /\ UNCHANGED <<stack, solution>>
                   ELSE /\ stack' =
                              Append(Replace([top EXCEPT !.requirement = @ + 1]),
                                     [Frame(top.dependencies[top.requirement]
                                                .package_name)
                                      EXCEPT !.entry =
                                         With(apply_all(added.transactions),
                                              LAMBDA b :
                                                 [transactions |->
                                                      Len(added.transactions),
                                                  assignments |-> b.assignments,
                                                  constraints |-> b.constraints])])
                        /\ UNCHANGED <<pc, solution, exception>>
       \/ /\ pc = "loop"
          /\ exception = ""
          /\ top.state = "dependencies"
          /\ top.requirement > Len(top.dependencies)
          /\ Len(stack) > 1
          \* book.commit_transaction(); return
          /\ transactions' =
                 SubSeq(transactions, 1, Len(transactions) - 2) \o
                 <<transactions[Len(transactions) - 1] \o
                   transactions[Len(transactions)]>>
          /\ stack' = Caller
          /\ UNCHANGED <<pc, solution, exception>>
       \/ /\ pc = "loop"
          /\ exception = ""
          /\ top.state = "dependencies"
          /\ top.requirement > Len(top.dependencies)
          /\ Len(stack) = 1
          \* the result: the assignments, the root aside, that a constraint is on
          /\ solution' =
                 SelectSeq(book.assignments,
                           LAMBDA a :
                              /\ a.class # "RootAssignment"
                              /\ \E k \in 1..Len(book.constraints) :
                                    is_constraint_on_package(book.constraints[k],
                                                             a.package_name))
          /\ pc' = "returned"
          /\ UNCHANGED <<transactions, stack, exception>>
       \/ /\ pc = "loop"
          /\ exception # ""
          /\ Len(stack) > 1
          \* except SolverError: book.rollback(), and the next version
          /\ transactions' = rollback(transactions)
          /\ stack' = Replace([top EXCEPT !.state = "versions", !.version = @ + 1])
          /\ exception' = ""
          /\ UNCHANGED <<pc, solution>>
       \/ /\ pc = "loop"
          /\ exception # ""
          /\ Len(stack) = 1
          \* solve_dependencies catches nothing
          /\ pc' = "raised"
          /\ UNCHANGED <<transactions, stack, solution, exception>>

Solver4Spec == Solver4Init /\ [][solve_dependencies_4]_vars

(***************************************************************************)
(* A Book of solver4 used on its own: some operations, begin_transaction,  *)
(* some more operations, then rollback or commit_transaction.  Beside the  *)
(* book, stack holds one record: the assignments and constraints the book  *)
(* had at begin_transaction, and a second book that is given the same      *)
(* operations with no transaction begun.                                   *)
(***************************************************************************)
\* most operations the transactions of the book hold together
MaxOperations == 4

Book_transaction ==
    LET root == [RootAssignment EXCEPT !.version = "0"]
        Sources == {root, Assignment("a", "1.0"), Assignment("b", "1.0")}
        Targets == {DependencyConstraint(s, Requirement(name, AnySpecifier), 1) :
                       s \in Sources, name \in {"a", "b"}}
        Calls == ({"add_assignment", "remove_assignment"} \X Sources \X
                      {DependencyConstraint(root, NoRequirement, 0)})
                 \cup ({"add_constraint", "remove_constraint"} \X {root} \X Targets)
    IN
    /\ UNCHANGED <<contents, listing, lookups, version_vars, root_dependencies, clauses,
                   assignment_memory, package_name, probed, all_violated_clauses,
                   version_to_assign, assignments, constraints, frontiers, solution>>
    /\ \/ /\ pc = "start"
          \* book = Book(package_repository)
          /\ transactions' = <<<<>>>>
          /\ pc' = "book"
          /\ UNCHANGED <<stack, exception>>
       \/ /\ pc = "book"
          /\ Len(Flatten(transactions)) < MaxOperations
          \* an operation before the transaction
          /\ \E call \in Calls :
                \E done \in {Book_operation(transactions, call[1], call[2], call[3])} :
                   /\ transactions' = done.transactions
                   /\ exception' = done.error
                   /\ pc' = IF done.error # "" THEN "raised" ELSE "book"
          /\ UNCHANGED stack
       \/ /\ pc = "book"
          \* book.begin_transaction()
          /\ transactions' = Append(transactions, <<>>)
          /\ stack' = <<[assignments |-> apply_all(transactions).assignments,
                         constraints |-> apply_all(transactions).constraints,
                         transactions |-> transactions, error |-> ""]>>
          /\ pc' = "transaction"
          /\ UNCHANGED exception
       \/ /\ pc = "transaction"
          /\ Len(Flatten(transactions)) < MaxOperations
          \* an operation inside the transaction, and the same operation on the
          \* book that has begun none
          /\ \E call \in Calls :
                \E done \in {Book_operation(transactions, call[1], call[2], call[3])},
                   direct \in {Book_operation(stack[1].transactions,
                                              call[1], call[2], call[3])} :
                   /\ transactions' = done.transactions
                   /\ stack' = <<[stack[1] EXCEPT
                                     !.transactions = direct.transactions,
                                     !.error = direct.error]>>
                   /\ exception' = done.error
                   /\ pc' = IF done.error # "" THEN "raised" ELSE "transaction"
       \/ /\ pc = "transaction"
          \* book.rollback()
          /\ transactions' = rollback(transactions)
          /\ pc' = "rolled back"
          /\ UNCHANGED <<stack, exception>>
       \/ /\ pc = "transaction"
          \* book.commit_transaction()
          /\ transactions' =
                 SubSeq(transactions, 1, Len(transactions) - 2) \o
                 <<transactions[Len(transactions) - 1] \o
                   transactions[Len(transactions)]>>
          /\ pc' = "committed"
          /\ UNCHANGED <<stack, exception>>

\* the Book is made over the ascending repository, which its operations
\* never ask
TransactionSpec == ListingInit /\ [][Book_transaction]_vars

(***************************************************************************)
(* Properties of the solver.                                               *)
(***************************************************************************)
Terminated == pc \in {"returned", "raised"}

\* the choices of one repository version, or of none, for every package
Choices ==
    LET versions == UNION {DOMAIN contents[p] : p \in DOMAIN contents}
    IN  {M \in [DOMAIN contents -> versions \cup {NullVersion}] :
            \A p \in DOMAIN contents :
                M[p] = NullVersion \/ M[p] \in DOMAIN contents[p]}

\* some choice gives every root requirement, and every requirement of a
\* chosen version, a chosen version of its package inside its version set
Resolvable ==
    \E M \in Choices :
        LET Meets(R) == /\ R.package_name \in DOMAIN M
                        /\ M[R.package_name] # NullVersion
                        /\ contains(R.version_set, M[R.package_name])
        IN  /\ \A i \in 1..Len(root_dependencies) : Meets(root_dependencies[i])
            /\ \A p \in DOMAIN M :
                  M[p] # NullVersion =>
                      \A k \in 1..Len(contents[p][M[p]]) : Meets(contents[p][M[p]][k])

\* C1: a returned map gives every root requirement, and every requirement of
\* each of its (package, version) entries, an entry whose version lies in
\* the requirement's version set.
C1_Soundness ==
    pc = "returned" =>
        LET Meets(R) == /\ R.package_name \in DOMAIN solution
                        /\ contains(R.version_set, solution[R.package_name])
        IN  /\ \A i \in 1..Len(root_dependencies) : Meets(root_dependencies[i])
            /\ \A p \in DOMAIN solution :
                  \A k \in 1..Len(contents[p][solution[p]]) :
                      Meets(contents[p][solution[p]][k])

\* C2: a solve of an input that has no consistent assignment ends by raising
\* SolverError: it raises nothing else and returns no map.
C2_UnresolvableRaisesSolverError ==
    (Terminated /\ ~Resolvable) => (pc = "raised" /\ exception = "SolverError")

\* C3: a solve of an input that has a consistent assignment never raises.
C3_Completeness ==
    pc = "raised" => ~Resolvable

\* C4: every solve ends: it returns a map or raises.
C4_Termination == <>Terminated

\* C4 witness: a solve has ended after an incompatibility was learned and an
\* assignment backtracked
C4_Witness ==
    /\ Terminated
    /\ \E i \in 1..Len(clauses) : clauses[i].class = "Incompatibility"
    /\ Len(assignment_memory) > Len(assignments)

\* C5: the assignments name every package at most once, the loop assigns a
\* version only to a package without assignment, and no assertion fails.
C5_OneAssignmentPerPackage ==
    /\ \A i, j \in 1..Len(assignments) :
          i # j => assignments[i].package_name # assignments[j].package_name
    /\ (pc = "decide" /\ version_to_assign # NoVersion)
          => ~has_assignment(assignments, package_name)
    /\ exception # "AssertionError"

\* C5 witness: a package is about to be assigned next to three live
\* assignments, after a backtrack
C5_Witness ==
    /\ pc = "decide"
    /\ version_to_assign # NoVersion
    /\ Len(assignments) >= 3
    /\ \E i \in 1..Len(clauses) : clauses[i].class = "Incompatibility"

\* C6: from add_root_dependencies on, the root assignment is among the
\* assignments in every state.
C6_RootNeverRemoved ==
    pc # "start" => InList(RootAssignment, assignments)

\* C7: every step keeps the clauses it finds, in their positions: the
\* clause list only grows at its end.
C7_ClausesMonotone ==
    [][/\ Len(clauses') >= Len(clauses)
       /\ SubSeq(clauses', 1, Len(clauses)) = clauses]_vars

\* C7 witness: a learned incompatibility is followed in the list by the
\* requirements of a version loaded after it
C7_Witness ==
    \E i, j \in 1..Len(clauses) :
        /\ i < j
        /\ clauses[i].class = "Incompatibility"
        /\ clauses[j].class = "Dependency"

\* C8: when the solve returns, every clause is true under the assignments.
C8_AllClausesTrueOnReturn ==
    pc = "returned" =>
        \A i \in 1..Len(clauses) : Clause_truth_value(clauses[i], assignments) = True

\* C8 witness: a solve returned with a learned incompatibility and with the
\* requirements of a version that was probed but is not assigned
C8_Witness ==
    /\ pc = "returned"
    /\ \E i \in 1..Len(clauses) : clauses[i].class = "Incompatibility"
    /\ \E i \in 1..Len(clauses) :
          /\ clauses[i].class = "Dependency"
          /\ ~InList(clauses[i].dependant, assignments)

\* C9: every package of a returned map is named by a root requirement or by
\* a requirement of a (package, version) entry of the map.
C9_NoUnneededPackage ==
    pc = "returned" =>
        \A p \in DOMAIN solution :
            \/ \E i \in 1..Len(root_dependencies) :
                  root_dependencies[i].package_name = p
            \/ \E q \in DOMAIN solution :
                  \E k \in 1..Len(contents[q][solution[q]]) :
                      contents[q][solution[q]][k].package_name = p

\* C10: under a Null assignment of its package the requirement term of a
\* Dependency is false, whatever its version set, and the negated
\* assignment term of a Dependency is true.
C10_NullSemantics ==
    \A i \in 1..Len(clauses) :
        clauses[i].class = "Dependency" =>
            /\ get_assignment(assignments, clauses[i].terms[2].requirement.package_name).version
                    = NullVersion
                  => Term_truth_value(clauses[i].terms[2], assignments) = False
            /\ get_assignment(assignments, clauses[i].terms[1].requirement.package_name).version
                    = NullVersion
                  => Term_truth_value(clauses[i].terms[1], assignments) = True

\* the clauses that name the package and are false when the package is
\* given the version and the other packages keep their assignments
FalseUnder(name, version) ==
    LET assignments_to_use ==
            <<Assignment(name, version)>> \o
            SelectSeq(assignments, LAMBDA a : a.package_name # name)
    IN  {i \in 1..Len(clauses) :
            /\ \E k \in 1..Len(clauses[i].terms) :
                   clauses[i].terms[k].requirement.package_name = name
            /\ Clause_truth_value(clauses[i], assignments_to_use) = False}

C12_ReturnedMap ==
    pc = "returned" =>
        LET kept == {i \in 1..Len(assignments) :
                        /\ assignments[i] # RootAssignment
                        /\ assignments[i].version # NullVersion}
        IN  /\ DOMAIN solution = {assignments[i].package_name : i \in kept}
            /\ Cardinality(DOMAIN solution) = Cardinality(kept)
            /\ \A i \in kept : solution[assignments[i].package_name] = assignments[i].version
            /\ RootName \notin DOMAIN solution

\* C12 witness: a map of two packages is returned from a state that also
\* holds a Null assignment
C12_Witness ==
    /\ pc = "returned"
    /\ Cardinality(DOMAIN solution) >= 2
    /\ \E i \in 1..Len(assignments) : assignments[i].version = NullVersion

\* the packages named by the requirements of the versions of package p
RequiredBy(p) ==
    UNION {{contents[p][v][k].package_name : k \in 1..Len(contents[p][v])} :
              v \in DOMAIN contents[p]}

\* the packages reached from the packages of set S along the requirements
RECURSIVE ReachedFrom(_)
ReachedFrom(S) ==
    LET more == S \cup UNION {RequiredBy(p) : p \in S \cap DOMAIN contents}
    IN  IF more = S THEN S ELSE ReachedFrom(more)

\* the requirements of the repository form a cycle
Cyclic ==
    \E p \in DOMAIN contents : p \in ReachedFrom(RequiredBy(p))

\* C13: the solve of a repository whose requirements form a cycle ends with
\* a returned map or with SolverError, and the computation of the depth of
\* an assignment ends (no RecursionError).
C13_CyclesHandled ==
    Cyclic =>
        /\ exception # "RecursionError"
        /\ Terminated => (pc = "returned" \/ exception = "SolverError")

\* C14 as stated: after each step the dependant of every Dependency clause
\* is an assignment that is in state.assignments.
C14_DependantsAssigned ==
    \A i \in 1..Len(clauses) :
        clauses[i].class = "Dependency" => InList(clauses[i].dependant, assignments)

\* C14 amended: after each step the dependant of every Dependency clause is
\* the root assignment or an assignment of a repository version that
\* state.assignment_memory records (one that was probed or committed); it
\* may have left state.assignments, or never have been in it.
C14_DependantsRemembered ==
    \A i \in 1..Len(clauses) :
        clauses[i].class = "Dependency" =>
            \/ clauses[i].dependant = RootAssignment
            \/ /\ InList(clauses[i].dependant, assignment_memory)
               /\ clauses[i].dependant.version # NullVersion
               /\ clauses[i].dependant.package_name \in DOMAIN contents
               /\ clauses[i].dependant.version
                      \in DOMAIN contents[clauses[i].dependant.package_name]

\* C14 witness: after an incompatibility was learned the loop is at its head
\* and holds the requirements of two versions that are not assigned
C14_Witness ==
    /\ pc = "loop"
    /\ \E i, j \in 1..Len(clauses) :
          /\ clauses[i].class = "Dependency"
          /\ clauses[j].class = "Dependency"
          /\ clauses[i].dependant # clauses[j].dependant
          /\ ~InList(clauses[i].dependant, assignments)
          /\ ~InList(clauses[j].dependant, assignments)
    /\ \E i \in 1..Len(clauses) : clauses[i].class = "Incompatibility"

\* the assignments of a choice M, behind the root assignment
RECURSIVE AssignmentsOf(_, _)
AssignmentsOf(M, names) ==
    IF names = {} THEN <<RootAssignment>>
    ELSE LET n == CHOOSE x \in names : TRUE
         IN  Append(AssignmentsOf(M, names \ {n}), Assignment(n, M[n]))

\* the choice satisfies the Dependency clauses of the root requirements and
\* of the requirements of every version of the repository
Satisfying(total) ==
    /\ \A i \in 1..Len(root_dependencies) :
          Clause_truth_value(Dependency(RootAssignment, root_dependencies[i]), total) = True
    /\ \A p \in DOMAIN contents : \A v \in DOMAIN contents[p] :
          \A k \in 1..Len(contents[p][v]) :
              Clause_truth_value(Dependency(Assignment(p, v), contents[p][v][k]), total) = True

\* C15: every Incompatibility among the clauses is true under every choice
\* of one repository version or of Version("none") for each package that,
\* with the root, satisfies the Dependency clauses of the root requirements
\* and of all versions of the repository.
C15_LearnedClausesSound ==
    \A i \in 1..Len(clauses) :
        clauses[i].class = "Incompatibility" =>
            \A M \in Choices :
                With(AssignmentsOf(M, DOMAIN M), LAMBDA total :
                    Satisfying(total) => Clause_truth_value(clauses[i], total) = True)

\* C15 witness: an Incompatibility with at least one term has been learned
\* for an input that some choice satisfies
C15_Witness ==
    /\ \E i \in 1..Len(clauses) :
          clauses[i].class = "Incompatibility" /\ Len(clauses[i].terms) >= 1
    /\ \E M \in Choices : Satisfying(AssignmentsOf(M, DOMAIN M))

\* C16: the real versions of an iteration are probed in descending order,
\* whatever the order of the list get_versions returned, and an accepted real
\* version is the greatest version of the package under which no clause of
\* the package is false.
C16_DescendingProbes ==
    pc = "decide" =>
        /\ \A i, j \in 2..Len(probed) : i < j => Version_gt(probed[i], probed[j])
        /\ version_to_assign \notin {NoVersion, NullVersion} =>
               \A w \in DOMAIN contents[package_name] :
                   FalseUnder(package_name, w) = {} => Version_ge(version_to_assign, w)

\* the list of assignments the trial of the k-th candidate of the last probe
\* used: the candidate, then the assignments of the other packages
TrialList(k) ==
    <<Assignment(package_name, probed[k])>> \o
        SelectSeq(assignments, LAMBDA a : a.package_name # package_name)

\* P holds of every evaluation of a clause the solver makes in the state:
\* of every clause under the assignments made so far (solution_is_complete)
\* and, once a package was probed, of the clauses of that package under the
\* list of each trial
EveryEvaluation(P(_, _)) ==
    /\ \A c \in 1..Len(clauses) : P(clauses[c], assignments)
    /\ pc = "decide" =>
           \A k \in 1..Len(probed) :
               LET A == TrialList(k)
               IN  \A c \in 1..Len(clauses) :
                       (\E t \in 1..Len(clauses[c].terms) :
                           clauses[c].terms[t].requirement.package_name = package_name)
                           => P(clauses[c], A)

\* the values of the terms of a clause under a list of assignments
TermValues(clause, A) ==
    {Term_truth_value(clause.terms[i], A) : i \in 1..Len(clause.terms)}

\* a term is unknown iff its package has no assignment in A and otherwise
\* tells whether the assigned version is in its version set; the clause is
\* true if one of its terms is true, else unknown if one is unknown, else
\* false
ThreeValued(clause, A) ==
    \E values \in {[t \in 1..Len(clause.terms) |->
                       Term_truth_value(clause.terms[t], A)]} :
        /\ \A t \in 1..Len(clause.terms) :
               \E term \in {clause.terms[t]} :
               \E assigned \in {{i \in 1..Len(A) :
                                    A[i].package_name = term.requirement.package_name}} :
                   /\ values[t] = None <=> assigned = {}
                   /\ \A i \in assigned :
                          values[t] = IF contains(term.requirement.version_set,
                                                  A[i].version)
                                      THEN True ELSE False
        /\ Clause_truth_value(clause, A) =
               (IF \E t \in DOMAIN values : values[t] = True THEN True
                ELSE IF \E t \in DOMAIN values : values[t] = None THEN None
                ELSE False)

\* C22: in every evaluation of a clause a term is unknown iff its package
\* has no assignment and otherwise tells whether the assigned version is in
\* its version set; the clause is true if one of its terms is true, else
\* unknown if one is unknown, else false, and the clause without terms is
\* false.
C22_ThreeValued ==
    /\ Clause_truth_value(Clause(<<>>), assignments) = False
    /\ EveryEvaluation(ThreeValued)

\* a clause that is true with an unknown term beside the true one, and a
\* clause that is unknown, under the assignments
C22_Witness ==
    /\ \E c \in 1..Len(clauses) :
           /\ {True, None} \subseteq TermValues(clauses[c], assignments)
           /\ Clause_truth_value(clauses[c], assignments) = True
    /\ \E c \in 1..Len(clauses) : Clause_truth_value(clauses[c], assignments) = None

\* a Dependency of assignment D and requirement R is false under A exactly
\* when D's package has D's version and R's package a version outside R's
\* set, true when D's package has another version or Version("none") or R's
\* package a version of R's set, and unknown otherwise
IsImplication(clause, A) ==
    clause.class = "Dependency" =>
        \E D \in {clause.dependant}, R \in {clause.dependency} :
        \E d \in {get_assignment(A, D.package_name)},
           r \in {get_assignment(A, R.package_name)} :
        \E chosen \in {d # NoAssignment /\ Version_eq(d.version, D.version)},
           dropped \in {d # NoAssignment /\ Version_ne(d.version, D.version)},
           met \in {r # NoAssignment /\ contains(R.version_set, r.version)},
           value \in {Clause_truth_value(clause, A)} :
            /\ value = False <=> (chosen /\ r # NoAssignment /\ ~met)
            /\ value = True <=> (dropped \/ met)
            /\ value = None <=> ~(chosen /\ r # NoAssignment /\ ~met)
                                   /\ ~(dropped \/ met)
            /\ (d # NoAssignment /\ d.version = NullVersion) => value = True

ViolatedTerms ==
    {t \in UNION {{clauses[all_violated_clauses[k]].terms[i] :
                      i \in 1..Len(clauses[all_violated_clauses[k]].terms)} :
                  k \in 1..Len(all_violated_clauses)} :
        t.requirement.package_name # package_name}

\* C24: when every candidate of the focus package was rejected, the clause
\* that is learned has no term of the focus package, has one term for each
\* other package of the violated clauses and no further term, and the term of
\* a package allows the versions that some term of that package in the
\* violated clauses allows: each package occurs in at most one term.
C24_LearnedClauseMerged ==
    [][(pc = "decide" /\ version_to_assign = NoVersion /\ clauses' # clauses) =>
          LET learned == clauses'[Len(clauses')]
              TermsOf(p) == {i \in 1..Len(learned.terms) :
                                learned.terms[i].requirement.package_name = p}
              versions == UNION {DOMAIN contents[p] : p \in DOMAIN contents}
                              \cup {NullVersion, "1.0"}
          IN  /\ Len(clauses') = Len(clauses) + 1
              /\ learned.class = "Incompatibility"
              /\ TermsOf(package_name) = {}
              /\ \A i \in 1..Len(learned.terms) :
                     \E t \in ViolatedTerms :
                        t.requirement.package_name =
                            learned.terms[i].requirement.package_name
              /\ \A t \in ViolatedTerms :
                     /\ Cardinality(TermsOf(t.requirement.package_name)) = 1
                     /\ \A i \in TermsOf(t.requirement.package_name), v \in versions :
                            contains(learned.terms[i].requirement.version_set, v) <=>
                                \E u \in ViolatedTerms :
                                    /\ u.requirement.package_name =
                                           t.requirement.package_name
                                    /\ contains(u.requirement.version_set, v)
      ]_vars

\* the assignment the step backtracks: the deepest one of the learned clause,
\* or the one the focus package already has
Backtracked ==
    IF version_to_assign = NoVersion
    THEN get_deepest_assignment_involving(
             clauses', assignments,
             get_package_names(clauses'[Len(clauses')])).assignment
    ELSE get_assignment(assignments, package_name)

\* the assignments enabled by one of the assignments of S: those that meet
\* the requirement of a Dependency whose dependant is in S
EnabledBy(S) ==
    {B \in {assignments[i] : i \in 1..Len(assignments)} :
        \E A \in S, c \in 1..Len(clauses) :
            /\ clauses[c].class = "Dependency"
            /\ Assignment_eq(clauses[c].dependant, A)
            /\ clauses[c].dependency.package_name = B.package_name
            /\ contains(clauses[c].dependency.version_set, B.version)}

RECURSIVE EnabledFrom(_)
EnabledFrom(S) ==
    IF EnabledBy(S) \subseteq S THEN S ELSE EnabledFrom(S \cup EnabledBy(S))

\* C25: a step that backtracks assignment A leaves neither A nor an
\* assignment enabled by A, directly or through other enabled assignments,
\* in state.assignments, and leaves the other assignments in place.
C25_BacktrackRemovesEnabled ==
    [][(pc = "decide" /\ pc' = "loop" /\ assignments' # assignments
            /\ Len(assignments') <= Len(assignments)) =>
          LET gone == EnabledFrom({Backtracked})
          IN  assignments' = SelectSeq(assignments, LAMBDA a : a \notin gone)
      ]_vars

\* the positions of the current assignments that are dependants of the
\* assignment at position i
AssignedDependants(i) ==
    {j \in 1..Len(assignments) :
        \E c \in 1..Len(clauses) :
            /\ clauses[c].class = "Dependency"
            /\ clauses[c].dependency.package_name = assignments[i].package_name
            /\ Assignment_eq(clauses[c].dependant, assignments[j])}

\* the depth of the assignment at position i: 0 for the root, otherwise 1 +
\* the least depth of its assigned dependants, found level by level from the
\* root; -1 if no chain of dependants leads to the root
RECURSIVE LevelOf(_, _, _, _)
LevelOf(i, frontier, seen, n) ==
    IF i \in frontier THEN n
    ELSE IF frontier = {} THEN -1
    ELSE LevelOf(i,
                 {j \in (1..Len(assignments)) \ (seen \cup frontier) :
                     AssignedDependants(j) \cap frontier # {}},
                 seen \cup frontier, n + 1)

Depth(i) ==
    LevelOf(i, {j \in 1..Len(assignments) : assignments[j].class = "RootAssignment"},
            {}, 0)

\* C26: when an Incompatibility is learned and every current assignment of
\* a package of the learned clause has a depth, one of them is backtracked:
\* one of greatest depth, and of those the latest in assignment order.
C26_DeepestBacktracked ==
    [][(pc = "decide" /\ version_to_assign = NoVersion /\ clauses' # clauses) =>
          LET names == get_package_names(clauses'[Len(clauses')])
              involved == {i \in 1..Len(assignments) :
                              \E k \in 1..Len(names) :
                                  names[k] = assignments[i].package_name}
          IN  (involved # {} /\ \A i \in involved : Depth(i) >= 0) =>
                  \E i \in involved :
                      /\ \A j \in involved :
                             \/ Depth(j) < Depth(i)
                             \/ Depth(j) = Depth(i) /\ j <= i
                      /\ pc' = "loop"
                      /\ ~InList(assignments[i], assignments')
                      /\ Len(assignments') < Len(assignments)
      ]_vars

\* list is what is left of whole once some of its elements are removed, the
\* others keeping their order
RECURSIVE IsSubsequence(_, _)
IsSubsequence(list, whole) ==
    IF list = <<>> THEN TRUE
    ELSE IF whole = <<>> THEN FALSE
    ELSE IF Head(list) = Head(whole) THEN IsSubsequence(Tail(list), Tail(whole))
    ELSE IsSubsequence(list, Tail(whole))

\* C27: once the root requirements are added the root assignment is the
\* first element of state.assignments; a step that commits an assignment
\* appends it at the end, and every other step leaves the list as it is or
\* removes elements from it, the others keeping their order.
C27_AssignmentOrder ==
    /\ [](pc # "start" =>
            Len(assignments) >= 1 /\ assignments[1] = RootAssignment)
    /\ [][\/ /\ Len(assignments') = Len(assignments) + 1
              /\ SubSeq(assignments', 1, Len(assignments)) = assignments
           \/ /\ Len(assignments') <= Len(assignments)
              /\ IsSubsequence(assignments', assignments)]_vars

\* the positions of the Dependency clauses of version v of package p
ClausesOf(p, v) ==
    {c \in 1..Len(clauses) :
        /\ clauses[c].class = "Dependency"
        /\ clauses[c].dependant.class = "Assignment"
        /\ clauses[c].dependant.package_name = p
        /\ clauses[c].dependant.version = v}

\* C28: the requirements of a version are fetched at most once, each fetch
\* being recorded in state.assignment_memory, and state.clauses holds its
\* Dependency clauses at most once: none, or one for each requirement of
\* the version, in their order.  Version("none") is never recorded and has
\* no Dependency clause.
C28_DependenciesLoadedOnce ==
    /\ \A i, j \in 1..Len(assignment_memory) :
           (/\ assignment_memory[i].package_name = assignment_memory[j].package_name
            /\ assignment_memory[i].version = assignment_memory[j].version) => i = j
    /\ \A i \in 1..Len(assignment_memory) :
           /\ assignment_memory[i].version # NullVersion
           /\ assignment_memory[i].package_name \in DOMAIN contents
           /\ assignment_memory[i].version \in
                  DOMAIN contents[assignment_memory[i].package_name]
    /\ \A p \in DOMAIN contents :
           /\ ClausesOf(p, NullVersion) = {}
           /\ \A v \in DOMAIN contents[p] :
                  LET requirements == Repository_get_dependencies(contents, p, v)
                      loaded == SelectSeq([c \in 1..Len(clauses) |-> c],
                                          LAMBDA c : c \in ClausesOf(p, v))
                  IN  IF \E i \in 1..Len(assignment_memory) :
                            /\ assignment_memory[i].package_name = p
                            /\ assignment_memory[i].version = v
                      THEN [k \in 1..Len(loaded) |-> clauses[loaded[k]].dependency]
                               = requirements
                      ELSE loaded = <<>>

\* a version whose Dependency clauses were loaded before an Incompatibility
\* was learned is a candidate of the present probe again
C28_Witness ==
    /\ pc = "decide"
    /\ package_name \in DOMAIN contents
    /\ \E k \in 1..Len(probed), i \in 1..Len(clauses) :
           /\ clauses[i].class = "Incompatibility"
           /\ \E c \in ClausesOf(package_name, probed[k]) : c < i

\* C29: during a solve repo.get_versions is called at most once with each
\* package name.
C29_VersionsLookedUpOnce ==
    \A i, j \in 1..Len(lookups) : lookups[i] = lookups[j] => i = j

\* C32: at the start of every iteration of the solve loop no clause is false
\* under the current assignments.
C32_NoFalseClauseAtLoopStart ==
    pc = "loop" => get_unsatisfied_clauses(clauses, assignments) = <<>>

\* an iteration starts after an assignment was committed, and one starts
\* after an Incompatibility was learned and the backtrack was made
C32_Witness ==
    /\ pc = "loop"
    /\ Len(assignments) >= 2
    /\ \E c \in 1..Len(clauses) :
           /\ clauses[c].class = "Incompatibility"
           /\ Len(clauses[c].terms) >= 1
           /\ Clause_truth_value(clauses[c], assignments) = None

\* C33: depth is defined whenever it is needed: when an Incompatibility is
\* learned, every assignment whose depth get_deepest_assignment_involving
\* evaluates has a dependant among the assignments, so min() is never taken
\* of an empty list, and a backtrack target exists.
C33_DepthDefined ==
    (pc = "decide" /\ version_to_assign = NoVersion) =>
        \E incompatibility \in {Incompatibility(
                LearnedTerms(clauses, all_violated_clauses, package_name))} :
        \E deepest \in {get_deepest_assignment_involving(
                Append(clauses, incompatibility), assignments,
                get_package_names(incompatibility))} :
            /\ deepest.error # "ValueError"
            /\ deepest.error = "" => deepest.assignment # NoAssignment

\* C34: every committed version has its requirements in force: for every
\* assignment of a version other than Version("none") to a package other than
\* the root, and every requirement of that version in the repository,
\* state.clauses holds a Dependency of that assignment with that requirement.
C34_RequirementsInForce ==
    \A i \in 1..Len(assignments) :
        LET p == assignments[i].package_name
            v == assignments[i].version
        IN  (assignments[i].class = "Assignment" /\ v # NullVersion) =>
                LET requirements == Repository_get_dependencies(contents, p, v)
                IN  \A k \in 1..Len(requirements) :
                        \E c \in ClausesOf(p, v) :
                            clauses[c].dependency = requirements[k]

\* the package the next iteration of solver2 looks at has the root as its only
\* dependant and no allowed version
RootOnlyAndNoneAllowed ==
    /\ pc = "loop"
    /\ frontiers # <<>>
    /\ LET name == frontiers[1]
           on_package == SelectSeq(constraints,
                                   LAMBDA c : is_constraint_on_package(c, name))
       IN  /\ \E k \in 1..Len(on_package) : on_package[k].class = "DependencyConstraint"
           /\ \A k \in 1..Len(on_package) :
                  on_package[k].class = "DependencyConstraint" =>
                      on_package[k].assignment.class = "RootAssignment"
           /\ name \in DOMAIN contents
           /\ filter_allowed_version(
                  SelectSeq(assignments, LAMBDA a : a.package_name # name),
                  on_package, name, Repository_get_versions(contents, name)) = <<>>

\* C35: solver2 raises 'Version solving failed' when the package it looks at
\* has no allowed version and only the root as dependant, with one root
\* requirement on the package or several; the root assignment and the
\* constraints of the root requirements are never removed; and a returned
\* result holds, for every root requirement, a version of its package inside
\* its version set.
C35_RootFailureRaises ==
    /\ [][RootOnlyAndNoneAllowed => (pc' = "raised" /\ exception' = "Exception")]_vars
    /\ [](pc \in {"loop", "returned"} =>
             /\ \E i \in 1..Len(assignments) : assignments[i].class = "RootAssignment"
             /\ \A r \in 1..Len(root_dependencies) :
                    \E c \in 1..Len(constraints) :
                       /\ constraints[c].class = "DependencyConstraint"
                       /\ constraints[c].assignment.class = "RootAssignment"
                       /\ constraints[c].index = r)
    /\ [](pc = "returned" =>
             \A r \in 1..Len(root_dependencies) :
                \E i \in 1..Len(solution) :
                   /\ solution[i].package_name = root_dependencies[r].package_name
                   /\ contains(root_dependencies[r].version_set, solution[i].version))

\* C36: in solver4, after every step of solve_dependencies_recursive, the
\* source assignment of every DependencyConstraint of the book is among the
\* assignments of the book, and no package has two assignments.
C36_SourcesAssigned ==
    (pc \in {"loop", "returned"} /\ transactions # <<>>) =>
        With(apply_all(transactions), LAMBDA book :
            /\ \A k \in 1..Len(book.constraints) :
                   book.constraints[k].class = "DependencyConstraint" =>
                       InList(book.constraints[k].assignment, book.assignments)
            /\ \A i, j \in 1..Len(book.assignments) :
                   book.assignments[i].package_name = book.assignments[j].package_name
                       => i = j)

\* C37: when a call of solve_dependencies_recursive of solver4 returns or
\* raises a SolverError, the book has as many transactions as when the call
\* was entered; and when it raises, the assignments and the constraints of
\* the book are those it was entered with.
C37_BalancedAndAtomic ==
    [][(pc = "loop" /\ Len(stack) > 1 /\ Len(stack') = Len(stack) - 1) =>
          With(stack[Len(stack)].entry, LAMBDA entry :
              /\ Len(transactions') = entry.transactions
              /\ exception' # "" =>
                     /\ apply_all(transactions').assignments = entry.assignments
                     /\ apply_all(transactions').constraints = entry.constraints)]_vars

\* a nested call has tried its versions inside transactions, rolled each
\* back, and raised to a caller that holds a transaction of its own
C37_Witness ==
    /\ pc = "loop"
    /\ exception = "AllAssignmentsFailed"
    /\ Len(stack) >= 2
    /\ Len(transactions) >= 2
    /\ stack[Len(stack)].state = "dependencies"

\* C38: in solver4, begin_transaction, any operations and rollback leave the
\* assignments and the constraints of the book as they were before
\* begin_transaction; begin_transaction, the same operations and
\* commit_transaction leave them as the operations leave a book that has
\* begun no transaction.
C38_RollbackRestoresCommitKeeps ==
    /\ pc = "rolled back" =>
           /\ apply_all(transactions).assignments = stack[1].assignments
           /\ apply_all(transactions).constraints = stack[1].constraints
    /\ pc = "committed" =>
           /\ stack[1].error = ""
           /\ apply_all(transactions).assignments =
                  apply_all(stack[1].transactions).assignments
           /\ apply_all(transactions).constraints =
                  apply_all(stack[1].transactions).constraints

\* a transaction that removed an assignment the book held before it, and was
\* rolled back
C38_Witness ==
    /\ pc = "rolled back"
    /\ stack[1].assignments # <<>>
    /\ stack[1].assignments # apply_all(stack[1].transactions).assignments
    /\ \E i \in 1..Len(stack[1].transactions[1]) :
           stack[1].transactions[1][i].op = "RemoveAssignment"

(***************************************************************************)
(* Properties of the version algebra.                                      *)
(***************************************************************************)
\* the value of `a op b` for the objects a and b as they are
Holds(op, a, b) == Version_compare(components, op, a, b).value

\* C17: the comparison is a total order on the versions: of a<b, a==b and
\* a>b exactly one holds, compare(a,b) = -compare(b,a), and a<b with b<c
\* gives a<c (c ranging over the parsed versions as well).
C17_TotalOrder ==
    \A a, b \in DOMAIN components :
        LET cmp(x, y) == compare_versions(x, y)
            A == components[a]
            B == components[b]
        IN  /\ Cardinality({op \in {"<", "==", ">"} : Holds(op, a, b) = True}) = 1
            /\ \A op \in CompareOps : Holds(op, a, b) \in {True, False}
            /\ cmp(A, B) \in {LESSER, EQUAL, GREATER}
            /\ cmp(A, B) = (-1) * cmp(B, A)
            /\ \A C \in ParsedVersions \cup {components[c] : c \in DOMAIN components} :
                   (cmp(A, B) = LESSER /\ cmp(B, C) = LESSER) => cmp(A, C) = LESSER

\* C18: versions that compare equal have equal hashes.
C18_EqualVersionsEqualHashes ==
    \A a, b \in DOMAIN components :
        Holds("==", a, b) = True =>
            /\ Version_hash(components[a]).error = ""
            /\ Version_hash(components[b]).error = ""
            /\ Version_hash(components[a]).value = Version_hash(components[b]).value

\* C19: an operation on versions leaves the component list of every version
\* as it was, and no comparison, hash or membership test ends in an error.
C19_ComparisonKeepsOperands ==
    /\ [][components' = components]_vars
    /\ [](result.value \notin {"Exception", "AttributeError"})

\* the specifiers the laws of C20 are checked on
Leaves ==
    UNION {{EqSpecifier(k), NotEqSpecifier(k), GtEqSpecifier(k), LtSpecifier(k)} :
              k \in DOMAIN components}

\* C20: membership follows the set operations: a union contains v iff one
\* of its sets does, an intersection iff both do, a complement iff the set
\* does not, eq(v) contains v and neq(v) does not, and the complement of a
\* union contains the versions the intersection of the complements contains.
C20_SetAlgebra ==
    \A v \in DOMAIN components :
        LET In(set) == VersionSet_contains(set, v, components).value
        IN  /\ In(EqSpecifier(v)) = True
            /\ In(NotEqSpecifier(v)) = False
            /\ \A a \in Leaves :
                   /\ In(a) \in {True, False}
                   /\ In(complement(a)) = (IF In(a) = True THEN False ELSE True)
            /\ \A a, b \in Leaves :
                   /\ In(union(a, b)) =
                          (IF In(a) = True \/ In(b) = True THEN True ELSE False)
                   /\ In(intersection(a, b)) =
                          (IF In(a) = True /\ In(b) = True THEN True ELSE False)
                   /\ In(complement(union(a, b))) \in {True, False}
                   /\ In(complement(union(a, b))) =
                          In(intersection(complement(a), complement(b)))

\* C21: a.difference(b) contains v iff a contains v and b does not; a
\* version outside a is never in a.difference(b).
C21_Difference ==
    \A v \in DOMAIN components :
        LET In(set) == VersionSet_contains(set, v, components).value
        IN  \A a, b \in Leaves :
                /\ In(difference(a, b)) =
                       (IF In(a) = True /\ In(b) = False THEN True ELSE False)
                /\ In(a) = False => In(difference(a, b)) = False

\* C30: of two alphabetic components of which exactly one is a token of the
\* table, the table token is the lesser one if its rank is below the rank
\* of the release (the empty token) and the greater one if it is above.
C30_OneTableToken ==
    \A a, b \in DOMAIN components :
        \A i \in 1..Len(components[a]), j \in 1..Len(components[b]) :
            LET x == components[a][i]
                y == components[b][j]
                rank == string_version_orderings[lower(x.item)]
            IN  (/\ x.type = "string" /\ y.type = "string"
                 /\ lower(x.item) \in DOMAIN string_version_orderings
                 /\ lower(y.item) \notin DOMAIN string_version_orderings) =>
                    /\ rank < string_version_orderings[""] =>
                           /\ compare_version_components(x, y) = LESSER
                           /\ compare_version_components(y, x) = GREATER
                    /\ rank > string_version_orderings[""] =>
                           /\ compare_version_components(x, y) = GREATER
                           /\ compare_version_components(y, x) = LESSER

\* C31: the normalized representation of a numeric component drops only its
\* trailing zeros: two numeric components have the same normalized
\* representation exactly when they compare equal.
C31_NormalizedDropsTrailingZeros ==
    result.op = "hash" =>
        \A a, b \in DOMAIN components :
            \A i \in DOMAIN components[a], j \in DOMAIN components[b] :
                LET x == components[a][i]
                    y == components[b][j]
                IN  (x.type = "numeric" /\ y.type = "numeric") =>
                        ((normalized_representation(x) = normalized_representation(y))
                            <=> (compare_version_components(x, y) = EQUAL))

====
